---------------------------- MODULE Spec2Model ----------------------------
(***************************************************************************)
(* Model of the media file resolver of the chimney-design backend          *)
(* (backend/api/views/media_views.py, serve_media_file) and of the upload  *)
(* pipeline that names the files it serves (backend/api/views/             *)
(* main_views.py, upload_glb).                                             *)
(*                                                                         *)
(* A string is a sequence of one-character strings, so that the code's     *)
(* character-level operations (replace, lower, split, substring tests,     *)
(* fnmatch) are computed and not assumed.  A path is a sequence of         *)
(* segments (strings without "/"), absolute from the filesystem root.      *)
(* The filesystem is POSIX: names are case-sensitive, there are no         *)
(* symbolic links, and every file is readable.                             *)
(***************************************************************************)
EXTENDS Integers, Sequences, FiniteSets

VARIABLES
    files,      \* the regular files on disk, in directory enumeration order
    DEBUG,      \* settings.DEBUG
    designs,    \* ChimneyDesign rows, in creation order
    glb_files,  \* DesignGLBFile rows, in creation order
    pc,         \* "idle": no request in progress; "done": a media response was
                \* produced; "uploaded": an upload response was produced
    request,    \* the media request being answered (NoRequest otherwise)
    upload,     \* the upload request being answered (NoUpload otherwise)
    response    \* the response produced (NoResponse when idle)

vars == <<files, DEBUG, designs, glb_files, pc, request, upload, response>>

-----------------------------------------------------------------------------
(* Characters and strings                                                  *)

UpperLetters == <<"A","B","C","D","E","F","G","H","I","J","K","L","M",
                  "N","O","P","Q","R","S","T","U","V","W","X","Y","Z">>

LowerLetters == <<"a","b","c","d","e","f","g","h","i","j","k","l","m",
                  "n","o","p","q","r","s","t","u","v","w","x","y","z">>

Digits == {"0","1","2","3","4","5","6","7","8","9"}

Range(s) == {s[i] : i \in 1..Len(s)}

\* str.lower() on one character
LowerOf ==
    [c \in Range(UpperLetters) |->
        LowerLetters[CHOOSE i \in 1..Len(UpperLetters) : UpperLetters[i] = c]]

LowerChar(c) == IF c \in DOMAIN LowerOf THEN LowerOf[c] ELSE c

lower(s) == [i \in 1..Len(s) |-> LowerChar(s[i])]

AlnumChars == Digits \cup Range(UpperLetters) \cup Range(LowerLetters)

IsAlnumChar(c) == c \in AlnumChars

\* str.isalnum() and str.isdigit(): false on the empty string
isalnum(s) == Len(s) > 0 /\ \A i \in 1..Len(s) : IsAlnumChar(s[i])

isdigit(s) == Len(s) > 0 /\ \A i \in 1..Len(s) : s[i] \in Digits

\* str.replace(old, new) for single characters
replace(s, old, new) == [i \in 1..Len(s) |-> IF s[i] = old THEN new ELSE s[i]]

startswith(s, p) == Len(p) <= Len(s) /\ SubSeq(s, 1, Len(p)) = p

endswith(s, p) == Len(p) <= Len(s) /\ SubSeq(s, Len(s) - Len(p) + 1, Len(s)) = p

\* the Python test "p in s" on strings
contains(s, p) == \E i \in 0..(Len(s) - Len(p)) : SubSeq(s, i + 1, i + Len(p)) = p

\* the positions of character c in s
Positions(s, c) == {i \in 1..Len(s) : s[i] = c}

\* index of the first occurrence of character c in s, 0 when there is none
IndexOf(s, c) ==
    IF Positions(s, c) = {} THEN 0
    ELSE CHOOSE i \in Positions(s, c) : \A j \in Positions(s, c) : i <= j

\* index of the last occurrence of character c in s, 0 when there is none
LastIndexOf(s, c) ==
    IF Positions(s, c) = {} THEN 0
    ELSE CHOOSE i \in Positions(s, c) : \A j \in Positions(s, c) : j <= i

\* str.split(sep) for a single-character separator: "" splits to [""]
RECURSIVE split(_, _)
split(s, sep) ==
    LET i == IndexOf(s, sep)
    IN  IF i = 0 THEN <<s>>
        ELSE <<SubSeq(s, 1, i - 1)>> \o split(SubSeq(s, i + 1, Len(s)), sep)

\* sep.join(parts)
RECURSIVE join(_, _)
join(parts, sep) ==
    IF parts = <<>> THEN <<>>
    ELSE IF Len(parts) = 1 THEN parts[1]
    ELSE parts[1] \o <<sep>> \o join(Tail(parts), sep)

\* os.path.splitext on a base name: the extension starts at the last dot,
\* unless only dots precede it
splitext(name) ==
    LET d == LastIndexOf(name, ".")
    IN  IF d > 0 /\ \E j \in 1..(d - 1) : name[j] # "."
        THEN <<SubSeq(name, 1, d - 1), SubSeq(name, d, Len(name))>>
        ELSE <<name, <<>> >>

\* urllib.parse.unquote on one path segment.  Of the escapes only %20
\* (space) and %2e (dot) occur in the requests drawn; another well-formed
\* escape would decode to a character outside the alphabet, and a malformed
\* one is kept.
RECURSIVE unquote(_)
unquote(s) ==
    IF s = <<>> THEN <<>>
    ELSE IF Len(s) >= 3 /\ s[1] = "%" /\ s[2] = "2" /\ s[3] = "0"
         THEN <<" ">> \o unquote(SubSeq(s, 4, Len(s)))
         ELSE IF Len(s) >= 3 /\ s[1] = "%" /\ s[2] = "2" /\ s[3] \in {"e", "E"}
         THEN <<".">> \o unquote(SubSeq(s, 4, Len(s)))
         ELSE <<s[1]>> \o unquote(Tail(s))

-----------------------------------------------------------------------------
(* fnmatch and glob patterns                                               *)

\* fnmatch.translate, the scan for the "]" that closes a bracket expression:
\* rest is the pattern after the "[", the result is the index of the closing
\* "]" in rest, or 0 when there is none (the "[" is then a literal)
ClassEnd(rest) ==
    LET j1 == IF Len(rest) >= 1 /\ rest[1] = "!" THEN 2 ELSE 1
        j2 == IF Len(rest) >= j1 /\ rest[j1] = "]" THEN j1 + 1 ELSE j1
    IN  IF \E k \in j2..Len(rest) : rest[k] = "]"
        THEN CHOOSE k \in j2..Len(rest) :
                 rest[k] = "]" /\ \A m \in j2..(k - 1) : rest[m] # "]"
        ELSE 0

\* membership of character c in the bracket expression [stuff]; a leading
\* "!" negates.  No expression drawn holds a "-" between two characters,
\* so character ranges are not modelled.
InClass(c, stuff) ==
    IF stuff[1] = "!"
    THEN Len(stuff) = 1 \/ c \notin Range(Tail(stuff))
    ELSE c \in Range(stuff)

\* fnmatch.fnmatchcase(name, pat): "*" any run, "?" one character,
\* "[...]" one character of a class, anything else itself
RECURSIVE fnmatchcase(_, _)
fnmatchcase(name, pat) ==
    IF pat = <<>> THEN name = <<>>
    ELSE LET c == pat[1]
             rest == Tail(pat)
             j == ClassEnd(rest)
         IN  IF c = "*"
             THEN fnmatchcase(name, rest)
                  \/ (name # <<>> /\ fnmatchcase(Tail(name), pat))
             ELSE IF c = "?"
             THEN name # <<>> /\ fnmatchcase(Tail(name), rest)
             ELSE IF c = "[" /\ j > 0
             THEN /\ name # <<>>
                  /\ InClass(name[1], SubSeq(rest, 1, j - 1))
                  /\ fnmatchcase(Tail(name), SubSeq(rest, j + 1, Len(rest)))
             ELSE name # <<>> /\ name[1] = c /\ fnmatchcase(Tail(name), rest)

\* glob._ishidden
ishidden(name) == Len(name) > 0 /\ name[1] = "."

-----------------------------------------------------------------------------
(* Paths and the filesystem                                                *)

n_media == <<"m", "e", "d", "i", "a">>
n_models == <<"m", "o", "d", "e", "l", "s">>
n_original == <<"o", "r", "i", "g", "i", "n", "a", "l">>
DotDot == <<".", ".">>
ext_glb == <<".", "g", "l", "b">>

\* settings.MEDIA_ROOT = os.path.join(BASE_DIR, 'media'); BASE_DIR is taken
\* to be the filesystem root
MEDIA_ROOT == <<n_media>>

IsPrefix(p, q) == Len(p) <= Len(q) /\ SubSeq(q, 1, Len(p)) = p

IsProperPrefix(p, q) == Len(p) < Len(q) /\ SubSeq(q, 1, Len(p)) = p

Parent(p) == IF p = <<>> THEN <<>> ELSE SubSeq(p, 1, Len(p) - 1)

\* a normalised path names a regular file
IsFileAt(fs, p) == \E i \in 1..Len(fs) : fs[i] = p

\* a normalised path names a directory: the media root and its ancestors
\* always exist, any other directory exists by holding a file
IsDirAt(fs, p) ==
    \/ IsPrefix(p, MEDIA_ROOT)
    \/ \E i \in 1..Len(fs) : IsProperPrefix(p, fs[i])

\* the kernel's path walk: every segment but the last must lead through a
\* directory, ".." steps to the parent.  ok: the path names something;
\* at: the normalised path reached.
RECURSIVE PathWalk(_, _, _)
PathWalk(fs, cur, rest) ==
    IF rest = <<>>
    THEN [ok |-> IsFileAt(fs, cur) \/ IsDirAt(fs, cur), at |-> cur]
    ELSE IF ~IsDirAt(fs, cur)
    THEN [ok |-> FALSE, at |-> cur]
    ELSE PathWalk(fs,
                  IF Head(rest) = DotDot THEN Parent(cur) ELSE Append(cur, Head(rest)),
                  Tail(rest))

\* os.path.exists, os.path.isfile, os.path.isdir
exists(fs, p) == PathWalk(fs, <<>>, p).ok

isfile(fs, p) == LET w == PathWalk(fs, <<>>, p) IN w.ok /\ IsFileAt(fs, w.at)

isdir(fs, p) == LET w == PathWalk(fs, <<>>, p) IN w.ok /\ IsDirAt(fs, w.at)

\* the normalised path of an existing path
realpath(fs, p) == PathWalk(fs, <<>>, p).at

\* the entry names of the directory at normalised path d, in enumeration
\* order: the order in which the entries first occur in files
RECURSIVE Entries(_, _, _)
Entries(fs, d, acc) ==
    IF fs = <<>> THEN acc
    ELSE LET f == Head(fs)
             n == f[Len(d) + 1]
         IN  IF IsProperPrefix(d, f) /\ n \notin Range(acc)
             THEN Entries(Tail(fs), d, Append(acc, n))
             ELSE Entries(Tail(fs), d, acc)

\* os.listdir of an existing directory (the caller checks isdir)
listdir(fs, p) ==
    LET d == realpath(fs, p)
    IN  Entries(fs, d, IF IsProperPrefix(d, MEDIA_ROOT) THEN <<MEDIA_ROOT[Len(d) + 1]>> ELSE <<>>)

\* the names of a listing that a pattern selects, in listing order.  how is
\* "glob": glob's match (hidden entries only for a pattern that starts with
\* a dot); "lower": fnmatch on the lower-cased name; "lower_us": fnmatch on
\* the lower-cased name with spaces turned into underscores.
RECURSIVE SelectNames(_, _, _)
SelectNames(names, pat, how) ==
    IF names = <<>> THEN <<>>
    ELSE LET n == Head(names)
             hit == IF how = "glob"
                    THEN fnmatchcase(n, pat) /\ (ishidden(pat) \/ ~ishidden(n))
                    ELSE IF how = "lower"
                    THEN fnmatchcase(lower(n), pat)
                    ELSE fnmatchcase(replace(lower(n), " ", "_"), pat)
         IN  (IF hit THEN <<n>> ELSE <<>>) \o SelectNames(Tail(names), pat, how)

\* os.path.join(dir, name) for each name
JoinEach(dir, names) == [i \in 1..Len(names) |-> Append(dir, names[i])]

\* glob.glob(os.path.join(dir, pat)) for a directory path without magic
\* characters: the entries of dir that match pat; nothing when dir cannot
\* be listed
glob(fs, dir, pat) ==
    IF ~isdir(fs, dir) THEN <<>>
    ELSE JoinEach(dir, SelectNames(listdir(fs, dir), pat, "glob"))

\* os.walk(top): top first, then each subdirectory in enumeration order;
\* nothing when top is not a directory
RECURSIVE walk(_, _)
RECURSIVE WalkEach(_, _, _)
walk(fs, top) ==
    IF ~isdir(fs, top) THEN <<>>
    ELSE <<top>> \o WalkEach(fs, top, listdir(fs, top))
WalkEach(fs, top, names) ==
    IF names = <<>> THEN <<>>
    ELSE (IF isdir(fs, Append(top, Head(names)))
          THEN walk(fs, Append(top, Head(names))) ELSE <<>>)
         \o WalkEach(fs, top, Tail(names))

-----------------------------------------------------------------------------
(* serve_media_file: the request path                                      *)

\* A request path is [abs, segs]: the segments of the URL fragment after
\* /media/, and whether the fragment starts with "/".

\* path = unquote(path)
unquote_path(path) ==
    [abs |-> path.abs, segs |-> [i \in 1..Len(path.segs) |-> unquote(path.segs[i])]]

\* os.path.join(settings.MEDIA_ROOT, path): an absolute path replaces the root
join_media(path) == IF path.abs THEN path.segs ELSE MEDIA_ROOT \o path.segs

\* os.path.basename(path) and os.path.dirname(path)
basename(path) == IF path.segs = <<>> THEN <<>> ELSE path.segs[Len(path.segs)]

dirname(path) == [abs |-> path.abs, segs |-> Parent(path.segs)]

\* os.path.join(dir, name)
join_name(dir, name) == IF name = <<>> THEN dir ELSE Append(dir, name)

\* 'models' in dir_name, a substring test on the directory string
models_in(dir_name) == \E i \in 1..Len(dir_name.segs) : contains(dir_name.segs[i], n_models)

-----------------------------------------------------------------------------
(* serve_media_file: normalization pass                                    *)

\* normalization_pass with models/original/ probed before the request's own
\* directory
normalization_pass_original_first(fs, path) ==
    LET name_without_ext == splitext(basename(path))[1]
        file_ext == splitext(basename(path))[2]
        dir == join_media(dirname(path))
        original == MEDIA_ROOT \o <<n_models, n_original>>
        name_with_underscores == replace(name_without_ext, " ", "_")
        alt_path == join_name(dir, name_with_underscores \o file_ext)
        alt_path_original == join_name(original, name_with_underscores \o file_ext)
    IN  IF name_with_underscores = name_without_ext
        THEN [file_path |-> join_media(path), via |-> "none"]
        ELSE IF exists(fs, alt_path_original)
        THEN [file_path |-> alt_path_original, via |-> "underscores_original"]
        ELSE IF exists(fs, alt_path)
        THEN [file_path |-> alt_path, via |-> "underscores"]
        ELSE [file_path |-> join_media(path), via |-> "none"]

\* normalization_pass with the lower-cased name in the request's directory
\* probed before the underscored name in models/original/
normalization_pass_lower_first(fs, path) ==
    LET name_without_ext == splitext(basename(path))[1]
        file_ext == splitext(basename(path))[2]
        dir == join_media(dirname(path))
        original == MEDIA_ROOT \o <<n_models, n_original>>
        name_with_underscores == replace(name_without_ext, " ", "_")
        name_lower == lower(name_with_underscores)
        alt_path == join_name(dir, name_with_underscores \o file_ext)
        alt_path_original == join_name(original, name_with_underscores \o file_ext)
        alt_path_lower == join_name(dir, name_lower \o file_ext)
        alt_path_lower_original == join_name(original, name_lower \o file_ext)
    IN  IF name_with_underscores = name_without_ext
        THEN [file_path |-> join_media(path), via |-> "none"]
        ELSE IF exists(fs, alt_path)
        THEN [file_path |-> alt_path, via |-> "underscores"]
        ELSE IF exists(fs, alt_path_lower)
        THEN [file_path |-> alt_path_lower, via |-> "lowercase"]
        ELSE IF exists(fs, alt_path_original)
        THEN [file_path |-> alt_path_original, via |-> "underscores_original"]
        ELSE IF exists(fs, alt_path_lower_original)
        THEN [file_path |-> alt_path_lower_original, via |-> "lowercase_original"]
        ELSE [file_path |-> join_media(path), via |-> "none"]

\* The file path after the space-to-underscore candidates have been probed,
\* and the name of the candidate taken ("none": file_path is unchanged).
normalization_pass(fs, path) ==
    LET name_without_ext == splitext(basename(path))[1]
        file_ext == splitext(basename(path))[2]
        dir == join_media(dirname(path))
        original == MEDIA_ROOT \o <<n_models, n_original>>
        name_with_underscores == replace(name_without_ext, " ", "_")
        name_lower == lower(name_with_underscores)
        alt_path == join_name(dir, name_with_underscores \o file_ext)
        alt_path_original == join_name(original, name_with_underscores \o file_ext)
        alt_path_lower == join_name(dir, name_lower \o file_ext)
        alt_path_lower_original == join_name(original, name_lower \o file_ext)
    IN  IF name_with_underscores = name_without_ext
        THEN [file_path |-> join_media(path), via |-> "none"]
        ELSE IF exists(fs, alt_path)
        THEN [file_path |-> alt_path, via |-> "underscores"]
        ELSE IF exists(fs, alt_path_original)
        THEN [file_path |-> alt_path_original, via |-> "underscores_original"]
        ELSE IF exists(fs, alt_path_lower)
        THEN [file_path |-> alt_path_lower, via |-> "lowercase"]
        ELSE IF exists(fs, alt_path_lower_original)
        THEN [file_path |-> alt_path_lower_original, via |-> "lowercase_original"]
        ELSE [file_path |-> join_media(path), via |-> "none"]

-----------------------------------------------------------------------------
(* serve_media_file: pattern relaxation                                    *)

s_sec == <<"s", "e", "c">>
s_secs == <<"s", "e", "c", "s">>

\* the longest trailing token that is still taken for a unique id
SuffixMaxLen == 10

\* the length difference at which the similarity bonus reaches zero
LengthBonus == 10

\* the token overlap a first-part match needs
MinFirstPartScore == 2

\* parts = search_pattern.split('_')
request_parts(name_without_ext) == split(replace(name_without_ext, " ", "_"), "_")

\* the base pattern: the request name with spaces as underscores, without a
\* trailing unique id or version token
base_pattern(name_without_ext) ==
    LET search_pattern == replace(name_without_ext, " ", "_")
        parts == split(search_pattern, "_")
        n == Len(parts)
        last_part == parts[n]
        second_last == parts[n - 1]
    IN  IF n > 1 /\ Len(last_part) <= SuffixMaxLen
                 /\ (isalnum(last_part) \/ isdigit(last_part))
        THEN join(SubSeq(parts, 1, n - 1), "_")
        ELSE IF n > 2 /\ (\/ isdigit(second_last)
                          \/ contains(lower(second_last), s_secs)
                          \/ contains(lower(second_last), s_sec))
        THEN join(SubSeq(parts, 1, n - 2), "_")
        ELSE search_pattern

\* search_locations, before duplicates and missing directories are dropped
search_locations(fs, dir_name) ==
    LET models_dir == MEDIA_ROOT \o <<n_models>>
        original_dir == MEDIA_ROOT \o <<n_models, n_original>>
        is_models == ~dir_name.abs /\ dir_name.segs = <<n_models>>
        is_original == ~dir_name.abs /\ dir_name.segs = <<n_models, n_original>>
    IN  (IF dir_name.abs \/ dir_name.segs # <<>> THEN <<join_media(dir_name)>> ELSE <<>>)
        \o (IF models_in(dir_name) \/ is_models THEN <<original_dir, models_dir>>
            ELSE IF is_original THEN <<models_dir, original_dir>>
            ELSE <<>>)
        \o <<MEDIA_ROOT>>
        \o (IF exists(fs, models_dir) THEN walk(fs, models_dir) ELSE <<>>)

\* unique_locations: first occurrences only, existing paths only
RECURSIVE unique_locations(_, _, _)
unique_locations(fs, locs, seen) ==
    IF locs = <<>> THEN <<>>
    ELSE IF Head(locs) \notin seen /\ exists(fs, Head(locs))
    THEN <<Head(locs)>> \o unique_locations(fs, Tail(locs), seen \cup {Head(locs)})
    ELSE unique_locations(fs, Tail(locs), seen)

\* the number of tokens that occur in the candidate's file name
token_score(match_name, tokens) ==
    Cardinality({k \in 1..Len(tokens) : contains(match_name, tokens[k])})

\* the score of a candidate of a shortened pattern: token overlap with the
\* base pattern's tokens plus the length-similarity bonus
shorter_score(match_file, pattern_parts, name_without_ext) ==
    LET match_name == match_file[Len(match_file)]
        d == Len(match_name) - Len(name_without_ext)
        length_diff == IF d < 0 THEN -d ELSE d
    IN  token_score(match_name, pattern_parts)
        + (IF LengthBonus - length_diff > 0 THEN LengthBonus - length_diff ELSE 0)

\* the score of a candidate of the first-part pattern: token overlap with the
\* request's tokens
first_part_score(match_file, parts, name_without_ext) ==
    token_score(match_file[Len(match_file)], parts)

\* the loop "if score > best_score": the first candidate of the highest
\* score, if that score is positive.  best is [file, score], file <<>> for
\* None.  bonus tells which of the two scores the loop computes.
RECURSIVE best_of(_, _, _, _, _)
best_of(matching_files, tokens, name_without_ext, bonus, best) ==
    IF matching_files = <<>> THEN best
    ELSE LET f == Head(matching_files)
             score == IF bonus THEN shorter_score(f, tokens, name_without_ext)
                      ELSE first_part_score(f, tokens, name_without_ext)
         IN  best_of(Tail(matching_files), tokens, name_without_ext, bonus,
                     IF score > best.score THEN [file |-> f, score |-> score] ELSE best)

NoBest == [file |-> <<>>, score |-> 0]

\* the locals the view computes once, before the loop over the directories:
\* name_without_ext, file_ext, base_pattern, parts and (at line 161, the same
\* in every pass) pattern_parts
search_names(path) ==
    [name_without_ext |-> splitext(basename(path))[1],
     file_ext |-> splitext(basename(path))[2],
     base_pattern |-> base_pattern(splitext(basename(path))[1]),
     parts |-> request_parts(splitext(basename(path))[1]),
     pattern_parts |-> split(base_pattern(splitext(basename(path))[1]), "_")]

\* the outcomes of a search: a file was found by the named strategy, nothing
\* was found, an exception left the view
Found(file_path, via) == [kind |-> "found", file_path |-> file_path, via |-> via]

NotFound == [kind |-> "none", file_path |-> <<>>, via |-> "none"]

Raised == [kind |-> "raise", file_path |-> <<>>, via |-> "none"]

\* case_insensitive with a pattern that leaves the extension out
case_insensitive_any_ext(fs, search_dir, pattern_base, file_ext, how) ==
    JoinEach(search_dir,
             SelectNames(listdir(fs, search_dir), lower(pattern_base) \o <<"*">>, how))

\* the case-insensitive pass over os.listdir(search_dir); how is "lower" or
\* "lower_us"
case_insensitive(fs, search_dir, pattern_base, file_ext, how) ==
    JoinEach(search_dir,
             SelectNames(listdir(fs, search_dir), lower(pattern_base) \o <<"*">> \o file_ext, how))

\* Strategy 1, the order of its passes: the glob, then, if the directory
\* exists, os.listdir (which raises on a path that is no directory) and the
\* two case-insensitive passes over it; the first match of the first pass
\* that has one is taken
strategy1_first(matching_files, dir_exists, dir_isdir, ci1, ci2) ==
    IF matching_files # <<>> THEN Found(matching_files[1], "base_pattern")
    ELSE IF ~dir_exists THEN NotFound
    ELSE IF ~dir_isdir THEN Raised
    ELSE IF ci1 # <<>> THEN Found(ci1[1], "base_pattern")
    ELSE IF ci2 # <<>> THEN Found(ci2[1], "base_pattern")
    ELSE NotFound

\* Strategy 1 in one directory; q holds the view's locals
strategy1(fs, search_dir, q) ==
    strategy1_first(glob(fs, search_dir, q.base_pattern \o <<"*">> \o q.file_ext),
                    exists(fs, search_dir),
                    isdir(fs, search_dir),
                    case_insensitive(fs, search_dir, q.base_pattern, q.file_ext, "lower"),
                    case_insensitive(fs, search_dir, q.base_pattern, q.file_ext, "lower_us"))

\* "if best_match: ... break", else the next shorter pattern
best_or(best, next) == IF best.file # <<>> THEN best ELSE next

\* Strategy 2 in one directory, the loop from index i down to 1: glob on the
\* first i tokens and take the best candidate of the first length that has
\* one
RECURSIVE shorter_patterns(_, _, _, _)
shorter_patterns(fs, search_dir, q, i) ==
    IF i < 1 THEN NoBest
    ELSE best_or(best_of(glob(fs, search_dir,
                              join(SubSeq(q.pattern_parts, 1, i), "_") \o <<"*">> \o q.file_ext),
                         q.pattern_parts, q.name_without_ext, TRUE, NoBest),
                 shorter_patterns(fs, search_dir, q, i - 1))

\* Strategy 2 in one directory: for i in range(len(pattern_parts) - 1, 0, -1)
strategy2(fs, search_dir, q) ==
    shorter_patterns(fs, search_dir, q, Len(q.pattern_parts) - 1)

\* "if best_match and best_score >= 2"
first_part_accept(best) ==
    IF best.file # <<>> /\ best.score >= MinFirstPartScore THEN best ELSE NoBest

\* Strategy 3 in one directory: glob on the first token, accept the best
\* candidate if enough of the request's tokens occur in it
strategy3(fs, search_dir, q) ==
    first_part_accept(best_of(glob(fs, search_dir, q.parts[1] \o <<"*">> \o q.file_ext),
                              q.parts, q.name_without_ext, FALSE, NoBest))

\* the order of the three strategies in one directory
first_strategy(s1, s2, s3) ==
    IF s1.kind # "none" THEN s1
    ELSE IF s2.file # <<>> THEN Found(s2.file, "shorter_pattern")
    ELSE IF s3.file # <<>> THEN Found(s3.file, "first_part")
    ELSE NotFound

\* the three strategies in one directory
search_dir_result(fs, search_dir, q) ==
    first_strategy(strategy1(fs, search_dir, q),
                   strategy2(fs, search_dir, q),
                   strategy3(fs, search_dir, q))

\* "if found_file: break", else the next directory
first_result(r, next) == IF r.kind # "none" THEN r ELSE next

\* for search_dir in unique_locations: the first directory that yields a
\* file (or raises) ends the loop
RECURSIVE search_all(_, _, _)
search_all(fs, locs, q) ==
    IF locs = <<>> THEN NotFound
    ELSE first_result(search_dir_result(fs, Head(locs), q), search_all(fs, Tail(locs), q))

\* the pattern-relaxation pass for a request path
pattern_relaxation(fs, path) ==
    search_all(fs,
               unique_locations(fs, search_locations(fs, dirname(path)), {}),
               search_names(path))

-----------------------------------------------------------------------------
(* serve_media_file: the response                                          *)

ext_gltf == <<".", "g", "l", "t", "f">>
ext_stp == <<".", "s", "t", "p">>
ext_step == <<".", "s", "t", "e", "p">>
ext_stl == <<".", "s", "t", "l">>
ext_obj == <<".", "o", "b", "j">>
ext_fbx == <<".", "f", "b", "x">>
ext_3ds == <<".", "3", "d", "s">>
ext_dwg == <<".", "d", "w", "g">>
ext_png == <<".", "p", "n", "g">>
ext_jpg == <<".", "j", "p", "g">>
ext_jpeg == <<".", "j", "p", "e", "g">>
ext_gif == <<".", "g", "i", "f">>
ext_svg == <<".", "s", "v", "g">>
ext_webp == <<".", "w", "e", "b", "p">>
ext_py == <<".", "p", "y">>
ext_txt == <<".", "t", "x", "t">>

\* a header that is not set, a value that is None
Absent == "(absent)"

\* content_type_map.get(ext)
content_type_map(ext) ==
    CASE ext = ext_glb -> "model/gltf-binary"
      [] ext = ext_gltf -> "model/gltf+json"
      [] ext \in {ext_stp, ext_step, ext_stl, ext_obj, ext_fbx, ext_3ds} -> "application/octet-stream"
      [] ext = ext_dwg -> "application/acad"
      [] ext = ext_png -> "image/png"
      [] ext \in {ext_jpg, ext_jpeg} -> "image/jpeg"
      [] ext = ext_gif -> "image/gif"
      [] ext = ext_svg -> "image/svg+xml"
      [] ext = ext_webp -> "image/webp"
      [] OTHER -> Absent

\* mimetypes.guess_type(file_path)[0] for an extension outside the map: the
\* system table knows .txt among the extensions drawn
guess_type(ext) ==
    IF lower(ext) = ext_txt THEN "text/plain"
    ELSE IF lower(ext) = ext_py THEN "text/x-python"
    ELSE Absent

\* content_type_of with the extension looked up as written, not lower-cased
content_type_of_case_sensitive(file_path) ==
    LET ext == splitext(IF file_path = <<>> THEN <<>> ELSE file_path[Len(file_path)])[2]
    IN  IF content_type_map(ext) # Absent THEN content_type_map(ext)
        ELSE IF guess_type(ext) # Absent THEN guess_type(ext)
        ELSE "application/octet-stream"

\* the Content-Type of the resolved file
content_type_of(file_path) ==
    LET ext == lower(splitext(IF file_path = <<>> THEN <<>> ELSE file_path[Len(file_path)])[2])
    IN  IF content_type_map(ext) # Absent THEN content_type_map(ext)
        ELSE IF guess_type(ext) # Absent THEN guess_type(ext)
        ELSE "application/octet-stream"

\* the extensions that get Content-Disposition and Accept-Ranges
BinaryExts == {ext_glb, ext_gltf, ext_stp, ext_step, ext_stl, ext_obj, ext_fbx, ext_3ds, ext_dwg}

\* settings.CORS_ALLOWED_ORIGINS and settings.CORS_ALLOW_CREDENTIALS of the
\* production branch
CORS_ALLOWED_ORIGINS ==
    {"http://localhost:3000", "http://localhost:5173", "http://localhost:8000",
     "http://localhost:8080", "http://127.0.0.1:3000", "http://127.0.0.1:5173",
     "http://127.0.0.1:8000", "http://127.0.0.1:8080", "http://192.168.0.107:5173",
     "http://192.168.0.107:3000", "http://192.168.0.107:8080"}

CORS_ALLOW_CREDENTIALS == TRUE

\* cors_headers with the wildcard origin and credentials for every request
\* in DEBUG mode
cors_headers_wildcard(debug, origin) ==
    IF debug
    THEN [allow_origin |-> "*", allow_credentials |-> "true"]
    ELSE IF origin # Absent /\ origin \in CORS_ALLOWED_ORIGINS
    THEN [allow_origin |-> origin,
          allow_credentials |-> IF CORS_ALLOW_CREDENTIALS THEN "true" ELSE "false"]
    ELSE [allow_origin |-> Absent, allow_credentials |-> "false"]

\* cors_headers with the origin echoed in production mode without the
\* allow-list test
cors_headers_no_allow_list(debug, origin) ==
    IF origin # Absent
    THEN [allow_origin |-> origin, allow_credentials |-> "true"]
    ELSE IF debug
    THEN [allow_origin |-> "*", allow_credentials |-> "false"]
    ELSE [allow_origin |-> Absent, allow_credentials |-> "false"]

\* the two origin-dependent CORS headers; origin is Absent for a request
\* without an Origin header
cors_headers(debug, origin) ==
    IF debug
    THEN IF origin # Absent
         THEN [allow_origin |-> origin, allow_credentials |-> "true"]
         ELSE [allow_origin |-> "*", allow_credentials |-> "false"]
    ELSE IF origin # Absent /\ origin \in CORS_ALLOWED_ORIGINS
    THEN [allow_origin |-> origin,
          allow_credentials |-> IF CORS_ALLOW_CREDENTIALS THEN "true" ELSE "false"]
    ELSE [allow_origin |-> Absent, allow_credentials |-> "false"]

\* a response that carries no file: a not-found response, or the 500 the
\* framework makes of an exception that leaves the view
plain_response(status, body, raised, opened) ==
    [status |-> status, body |-> body, raised |-> raised, opened |-> opened,
     file_path |-> <<>>, file |-> <<>>, via |-> "none", content_type |-> Absent,
     content_disposition |-> <<>>, accept_ranges |-> Absent,
     allow_origin |-> Absent, allow_credentials |-> Absent, allow_methods |-> Absent]

NoResponse == plain_response(0, "none", "none", FALSE)

\* the not-found block: the two diagnostic listings, then the JSON body for
\* an API caller and Http404 for any other.  The view is routed at ^media/,
\* so request.path never starts with /api/.
not_found(fs, req, path) ==
    LET search_dir == join_media(dirname(path))
        original_dir == MEDIA_ROOT \o <<n_models, n_original>>
        dir_name == dirname(path)
        is_original == ~dir_name.abs /\ dir_name.segs = <<n_models, n_original>>
    IN  IF exists(fs, search_dir) /\ ~isdir(fs, search_dir)
        THEN plain_response(500, "none", "NotADirectoryError", FALSE)
        ELSE IF ~is_original /\ exists(fs, original_dir) /\ ~isdir(fs, original_dir)
        THEN plain_response(500, "none", "NotADirectoryError", FALSE)
        ELSE IF req.accept_json
        THEN plain_response(404, "json", "none", FALSE)
        ELSE plain_response(404, "html", "Http404", FALSE)

\* send_file with the requested name in Content-Disposition
send_file_requested_name(fs, debug, req, file_path, via) ==
    LET base == IF file_path = <<>> THEN <<>> ELSE file_path[Len(file_path)]
        ext == lower(splitext(base)[2])
        cors == cors_headers(debug, req.origin)
    IN  IF ~exists(fs, file_path)
        THEN plain_response(500, "none", "FileNotFoundError", FALSE)
        ELSE IF ~isfile(fs, file_path)
        THEN plain_response(500, "none", "IsADirectoryError", FALSE)
        ELSE IF req.method = "OPTIONS"
        THEN plain_response(500, "none", "NameError", TRUE)
        ELSE [status |-> 200, body |-> "file", raised |-> "none", opened |-> TRUE,
              file_path |-> file_path, file |-> realpath(fs, file_path), via |-> via,
              content_type |-> content_type_of(file_path),
              content_disposition |-> IF ext \in BinaryExts
                                      THEN basename(unquote_path(req.path)) ELSE <<>>,
              accept_ranges |-> IF ext \in BinaryExts THEN "bytes" ELSE Absent,
              allow_origin |-> cors.allow_origin,
              allow_credentials |-> cors.allow_credentials,
              allow_methods |-> "GET, HEAD, OPTIONS"]

\* the part of the view after resolution: content type, open, headers, and
\* the OPTIONS branch, which names Response, a name the module never imports.
\* open raises when the path is gone or is a directory.
send_file(fs, debug, req, file_path, via) ==
    LET base == IF file_path = <<>> THEN <<>> ELSE file_path[Len(file_path)]
        ext == lower(splitext(base)[2])
        cors == cors_headers(debug, req.origin)
    IN  IF ~exists(fs, file_path)
        THEN plain_response(500, "none", "FileNotFoundError", FALSE)
        ELSE IF ~isfile(fs, file_path)
        THEN plain_response(500, "none", "IsADirectoryError", FALSE)
        ELSE IF req.method = "OPTIONS"
        THEN plain_response(500, "none", "NameError", TRUE)
        ELSE [status |-> 200, body |-> "file", raised |-> "none", opened |-> TRUE,
              file_path |-> file_path, file |-> realpath(fs, file_path), via |-> via,
              content_type |-> content_type_of(file_path),
              content_disposition |-> IF ext \in BinaryExts THEN base ELSE <<>>,
              accept_ranges |-> IF ext \in BinaryExts THEN "bytes" ELSE Absent,
              allow_origin |-> cors.allow_origin,
              allow_credentials |-> cors.allow_credentials,
              allow_methods |-> "GET, HEAD, OPTIONS"]

\* resolve_in_order with the pattern relaxation for every extension
resolve_in_order_any_ext(fs, path, direct, norm) ==
    IF exists(fs, direct) THEN Found(direct, "exact")
    ELSE IF exists(fs, norm.file_path) THEN Found(norm.file_path, norm.via)
    ELSE pattern_relaxation(fs, path)

\* the order of the passes: the exact path, the normalization candidates,
\* and for a .glb request the pattern relaxation
resolve_in_order(fs, path, direct, norm) ==
    IF exists(fs, direct) THEN Found(direct, "exact")
    ELSE IF exists(fs, norm.file_path) THEN Found(norm.file_path, norm.via)
    ELSE IF lower(splitext(basename(path))[2]) # ext_glb THEN NotFound
    ELSE pattern_relaxation(fs, path)

\* the resolution of a request path to a file
resolve(fs, path) ==
    resolve_in_order(fs, path, join_media(path), normalization_pass(fs, path))

\* the response for a resolution
respond(fs, debug, req, path, res) ==
    IF res.kind = "raise" THEN plain_response(500, "none", "NotADirectoryError", FALSE)
    ELSE IF res.kind = "found" THEN send_file(fs, debug, req, res.file_path, res.via)
    ELSE not_found(fs, req, path)

\* the view: the response to request req on filesystem fs
serve_media_file(fs, debug, req) ==
    respond(fs, debug, req, unquote_path(req.path), resolve(fs, unquote_path(req.path)))

-----------------------------------------------------------------------------
(* upload_glb                                                              *)

x_stp == <<"s", "t", "p">>
x_step == <<"s", "t", "e", "p">>
x_glb == <<"g", "l", "b">>
x_gltf == <<"g", "l", "t", "f">>
s_wmss == <<"w", "m", "s", "s">>
s_single == <<"s", "i", "n", "g", "l", "e">>
s_skin == <<"s", "k", "i", "n">>
s_dup == <<"(", "1", ")">>

\* admin_helpers.MODEL_TYPE_MAPPING.get(model_type)
MODEL_TYPE_MAPPING(model_type) ==
    CASE model_type = "wmss_single_skin_5_secs" -> "WMSS SINGLE SKIN 5 SECS"
      [] model_type = "wmss_single_skin_2_secs" -> "WMSS SINGLE SKIN 2 SECS"
      [] model_type = "wmss_single_skin_1_sec" -> "WMSS SINGLE SKIN 1 SEC"
      [] model_type = "wmch_compensating_main_assembly_5_sec" -> "WMCH COMPENSATING MAIN ASSEMBLY WITH 5 SEC"
      [] model_type = "wmch_compensating_main_assembly_2_sec" -> "WMCH COMPENSATING MAIN ASSEMBLY WITH 2 SEC"
      [] model_type = "wmch_compensating_1_sec" -> "WMCH COMPENSATING 1 SEC"
      [] model_type = "uv_compensating_single_section_1_sec" -> "UV COMPENSATING SINGLE SECTION 1 SEC"
      [] model_type = "uv_compensating_main_assembly_5_sec" -> "UV COMPENSATING MAIN ASSEMBLY 5 SEC"
      [] model_type = "uv_compensating_main_assembly_2_sec" -> "UV COMPENSATING MAIN ASSEMBLY 2 SEC"
      [] model_type = "wmds_double_skin_main_2_sec" -> "WMDS DOUBLE SKIN MAIN 2 SEC"
      [] model_type = "wmds_double_skin_main_5_sec" -> "WMDS DOUBLE SKIN MAIN 5 SEC"
      [] model_type = "wmss_single_skin_1_sec_and_one_collar_hole_single_skin" ->
             "WMSS SINGLE SKIN 1 SEC && ONE COLLAR HOLE SINGLE SKIN"
      [] OTHER -> Absent

\* model_type.replace('_', ' ').title(), for the unmapped model type drawn
title_of_unmapped(model_type) ==
    CASE model_type = "custom_hood" -> "Custom Hood"
      [] OTHER -> model_type

\* no row: the id of None
NoDesign == 0

\* the id a new row gets
next_id(rows) ==
    IF rows = <<>> THEN 1
    ELSE 1 + (CHOOSE m \in {rows[i].id : i \in 1..Len(rows)} :
                  \A i \in 1..Len(rows) : rows[i].id <= m)

\* the position in ds of the row with this id
row_of(ds, id) == CHOOSE i \in 1..Len(ds) : ds[i].id = id

\* get_design_by_model_type: the id of the newest active design whose title
\* is the mapped title (Meta.ordering is -created_at; every title in the
\* table is written by this code, so iexact is equality), NoDesign for None
get_design_by_model_type(ds, model_type) ==
    LET title == MODEL_TYPE_MAPPING(model_type)
        hits == {i \in 1..Len(ds) : ds[i].title = title /\ ds[i].is_active}
    IN  IF title = Absent \/ hits = {} THEN NoDesign
        ELSE ds[CHOOSE i \in hits : \A j \in hits : j <= i].id

\* request.user of a request without credentials (AnonymousUser), and the
\* created_by of a design without creator (None)
NoUser == "(anonymous)"

\* ChimneyDesign.objects.create(title=..., is_active=True, created_by=...):
\* the file fields are empty and material_type is blank
new_design(ds, title, user) ==
    [id |-> next_id(ds), title |-> title, is_active |-> TRUE,
     model_file |-> <<>>, original_file |-> <<>>, original_file_format |-> Absent,
     thumbnail |-> <<>>, material_type |-> "", created_by |-> user]

\* file.name.lower().split('.')[-1]
ext_token(name) ==
    LET l == lower(name)
    IN  SubSeq(l, LastIndexOf(l, ".") + 1, Len(l))

\* the file the upload skips: "WMSS Single Skin 1 sec (1).glb"
unwanted(name) ==
    LET l == lower(name)
    IN  /\ contains(l, s_wmss) /\ contains(l, s_single) /\ contains(l, s_skin)
        /\ contains(l, <<"1">>) /\ contains(l, s_sec) /\ contains(l, s_dup)

\* the validation loop: the first file of another type ends the request;
\* unwanted files are dropped
RECURSIVE filter_files(_)
filter_files(files_to_upload) ==
    IF files_to_upload = <<>> THEN [ok |-> TRUE, filtered |-> <<>>]
    ELSE IF ext_token(Head(files_to_upload)) \notin {x_stp, x_step, x_glb, x_gltf}
    THEN [ok |-> FALSE, filtered |-> <<>>]
    ELSE LET rest == filter_files(Tail(files_to_upload))
         IN  IF ~rest.ok THEN rest
             ELSE IF unwanted(Head(files_to_upload)) THEN rest
             ELSE [ok |-> TRUE, filtered |-> <<Head(files_to_upload)>> \o rest.filtered]

\* 'STEP' if file.name.lower().endswith(('.stp', '.step')) else 'GLB'
file_format(name) ==
    IF endswith(lower(name), ext_stp) \/ endswith(lower(name), ext_step) THEN "STEP" ELSE "GLB"

\* the loop "for idx, file in enumerate(files_to_upload)", from index idx on.
\* st is [files, designs, glb_files]; ids[idx + 1] is the value uuid.uuid4()
\* returns for the file; design is the id of the design or NoDesign.  The
\* stored name is new (the uuid is), so default_storage.save keeps it, and
\* the new directory entry is enumerated last.
RECURSIVE upload_each(_, _, _, _, _, _)
upload_each(st, files_to_upload, ids, idx, design, file_type) ==
    IF idx >= Len(files_to_upload) THEN st
    ELSE LET name == files_to_upload[idx + 1]
             filename == ids[idx + 1] \o <<"_">> \o name
             file_path == <<n_models, filename>>
             mine == {i \in 1..Len(st.glb_files) : st.glb_files[i].design = design}
             existing_primary ==
                 \E i \in mine : st.glb_files[i].is_primary /\ st.glb_files[i].file_type = "model"
             is_primary == file_type = "model" /\ idx = 0 /\ ~existing_primary
             max_order ==
                 IF mine = {} THEN 0
                 ELSE CHOOSE m \in {st.glb_files[i].order : i \in mine} :
                          \A i \in mine : st.glb_files[i].order <= m
             glb_file == [id |-> next_id(st.glb_files), design |-> design,
                          file |-> file_path, file_type |-> file_type,
                          file_name |-> name, is_primary |-> is_primary,
                          order |-> max_order + idx + 1]
             d == st.designs[row_of(st.designs, design)]
             saved ==
                 IF file_type = "model" /\ d.model_file = <<>>
                 THEN [d EXCEPT !.model_file = file_path,
                                !.original_file_format = file_format(name)]
                 ELSE IF file_type = "original" /\ d.original_file = <<>>
                 THEN [d EXCEPT !.original_file = file_path,
                                !.original_file_format = file_format(name)]
                 ELSE d
             after ==
                 [files |-> Append(st.files, MEDIA_ROOT \o file_path),
                  designs |-> IF design = NoDesign THEN st.designs
                              ELSE [st.designs EXCEPT ![row_of(st.designs, design)] = saved],
                  glb_files |-> IF design = NoDesign THEN st.glb_files
                                ELSE Append(st.glb_files, glb_file)]
         IN  upload_each(after, files_to_upload, ids, idx + 1, design, file_type)

\* the view: the state and the response after the POST up, with ids the
\* values uuid.uuid4() returns
upload_glb(fs, ds, gs, up, ids) ==
    LET st == [files |-> fs, designs |-> ds, glb_files |-> gs]
        v == filter_files(up.files)
        file_type == IF up.file_type \in {"model", "original"} THEN up.file_type ELSE "model"
        found == get_design_by_model_type(ds, up.model_type)
        title == IF MODEL_TYPE_MAPPING(up.model_type) # Absent
                 THEN MODEL_TYPE_MAPPING(up.model_type)
                 ELSE title_of_unmapped(up.model_type)
        created == new_design(ds, title, up.user)
        with_design ==
            IF up.model_type # Absent /\ found = NoDesign
            THEN [st EXCEPT !.designs = Append(ds, created)]
            ELSE st
        design == IF up.model_type = Absent THEN NoDesign
                  ELSE IF found = NoDesign THEN created.id
                  ELSE found
    IN  IF up.files = <<>>
        THEN [st |-> st, response |-> plain_response(400, "No file provided", "none", FALSE)]
        ELSE IF ~v.ok
        THEN [st |-> st, response |-> plain_response(400, "must be a STEP or GLB file", "none", FALSE)]
        ELSE IF v.filtered = <<>>
        THEN [st |-> st, response |-> plain_response(400, "No valid files to upload after filtering", "none", FALSE)]
        ELSE [st |-> upload_each(with_design, v.filtered, ids, 0, design, file_type),
              response |-> plain_response(201, "uploaded", "none", FALSE)]

-----------------------------------------------------------------------------
(* upload_image and upload_3d_object                                       *)

n_thumbnails == <<"t", "h", "u", "m", "b", "n", "a", "i", "l", "s">>
n_images == <<"i", "m", "a", "g", "e", "s">>

\* the design the upload is attached to and the table that holds it: the
\* design of the model type, created when there is none
design_for(ds, model_type, user) ==
    LET found == get_design_by_model_type(ds, model_type)
        title == IF MODEL_TYPE_MAPPING(model_type) # Absent
                 THEN MODEL_TYPE_MAPPING(model_type)
                 ELSE title_of_unmapped(model_type)
    IN  IF found # NoDesign THEN [designs |-> ds, design |-> found]
        ELSE [designs |-> Append(ds, new_design(ds, title, user)), design |-> next_id(ds)]

\* design.thumbnail = file_path; design.save()
with_thumbnail(d, file_path) ==
    [designs |-> [d.designs EXCEPT ![row_of(d.designs, d.design)].thumbnail = file_path]]

\* the view upload_image: p is the POST, id the value uuid.uuid4() returns
upload_image(fs, ds, gs, p, id) ==
    LET st == [files |-> fs, designs |-> ds, glb_files |-> gs]
        folder == IF p.is_thumbnail THEN n_thumbnails ELSE n_images
        file_path == <<folder, id \o <<"_">> \o p.file>>
        saved == [st EXCEPT !.files = Append(fs, MEDIA_ROOT \o file_path)]
    IN  IF p.file = <<>>
        THEN [st |-> st, response |-> plain_response(400, "No file provided", "none", FALSE)]
        ELSE IF \A e \in {ext_jpg, ext_jpeg, ext_png, ext_gif, ext_webp, ext_svg} :
                    ~endswith(lower(p.file), e)
        THEN [st |-> st, response |-> plain_response(400, "File must be an image", "none", FALSE)]
        ELSE IF p.model_type # Absent /\ p.is_thumbnail
        THEN [st |-> [saved EXCEPT !.designs =
                         with_thumbnail(design_for(ds, p.model_type, p.user), file_path).designs],
              response |-> plain_response(201, "uploaded", "none", FALSE)]
        ELSE [st |-> saved, response |-> plain_response(201, "uploaded", "none", FALSE)]

\* the first of '.glb', '.gltf', '.stp', '.step' the lower-cased name ends
\* with, the empty string when it ends with none
object_ext(name) ==
    IF endswith(lower(name), ext_glb) THEN ext_glb
    ELSE IF endswith(lower(name), ext_gltf) THEN ext_gltf
    ELSE IF endswith(lower(name), ext_stp) THEN ext_stp
    ELSE IF endswith(lower(name), ext_step) THEN ext_step
    ELSE <<>>

\* file_ext.upper().replace('.', '')
object_format(file_ext) ==
    CASE file_ext = ext_glb -> "GLB"
      [] file_ext = ext_gltf -> "GLTF"
      [] file_ext = ext_stp -> "STP"
      [] file_ext = ext_step -> "STEP"

\* design.original_file, original_file_format and, for GLB and GLTF,
\* model_file are set; design.save()
with_original(d, file_path, file_ext) ==
    [designs |->
        [d.designs EXCEPT ![row_of(d.designs, d.design)] =
            [@ EXCEPT !.original_file = file_path,
                      !.original_file_format = object_format(file_ext),
                      !.model_file = IF file_ext \in {ext_glb, ext_gltf}
                                     THEN file_path ELSE @]]]

\* upload_3d_object with the design looked up and created before the file
\* part is looked at
upload_3d_object_design_first(fs, ds, gs, p, id) ==
    LET st == [files |-> fs, designs |-> ds, glb_files |-> gs]
        file_path == <<n_models, n_original, id \o <<"_">> \o p.file>>
        with_design == IF p.model_type = Absent THEN st
                       ELSE [st EXCEPT !.designs = design_for(ds, p.model_type, p.user).designs]
        saved == [with_design EXCEPT !.files = Append(fs, MEDIA_ROOT \o file_path)]
    IN  IF p.file = <<>>
        THEN [st |-> with_design,
              response |-> plain_response(400, "No file provided", "none", FALSE)]
        ELSE IF object_ext(p.file) = <<>>
        THEN [st |-> st, response |-> plain_response(400, "File must be a GLB or STEP file", "none", FALSE)]
        ELSE IF p.model_type # Absent
        THEN [st |-> [saved EXCEPT !.designs =
                         with_original(design_for(ds, p.model_type, p.user),
                                       file_path, object_ext(p.file)).designs],
              response |-> plain_response(201, "uploaded", "none", FALSE)]
        ELSE [st |-> saved, response |-> plain_response(201, "uploaded", "none", FALSE)]

\* the view upload_3d_object: p is the POST, id the value uuid.uuid4() returns
upload_3d_object(fs, ds, gs, p, id) ==
    LET st == [files |-> fs, designs |-> ds, glb_files |-> gs]
        file_path == <<n_models, n_original, id \o <<"_">> \o p.file>>
        saved == [st EXCEPT !.files = Append(fs, MEDIA_ROOT \o file_path)]
    IN  IF p.file = <<>>
        THEN [st |-> st, response |-> plain_response(400, "No file provided", "none", FALSE)]
        ELSE IF object_ext(p.file) = <<>>
        THEN [st |-> st, response |-> plain_response(400, "File must be a GLB or STEP file", "none", FALSE)]
        ELSE IF p.model_type # Absent
        THEN [st |-> [saved EXCEPT !.designs =
                         with_original(design_for(ds, p.model_type, p.user),
                                       file_path, object_ext(p.file)).designs],
              response |-> plain_response(201, "uploaded", "none", FALSE)]
        ELSE [st |-> saved, response |-> plain_response(201, "uploaded", "none", FALSE)]

-----------------------------------------------------------------------------
(* ensure_model_type_designs, the design viewset and delete_glb_file       *)

\* the keys of MODEL_TYPE_MAPPING in the order of the dict
ModelTypeKeys ==
    <<"wmss_single_skin_5_secs", "wmss_single_skin_2_secs", "wmss_single_skin_1_sec",
      "wmch_compensating_main_assembly_5_sec", "wmch_compensating_main_assembly_2_sec",
      "wmch_compensating_1_sec", "uv_compensating_single_section_1_sec",
      "uv_compensating_main_assembly_5_sec", "uv_compensating_main_assembly_2_sec",
      "wmds_double_skin_main_2_sec", "wmds_double_skin_main_5_sec",
      "wmss_single_skin_1_sec_and_one_collar_hole_single_skin">>

\* MATERIAL_TYPE_MAPPING.get(model_type, 'Stainless Steel 202')
MATERIAL_TYPE_MAPPING(model_type) ==
    IF model_type \in {"wmch_compensating_main_assembly_5_sec",
                       "wmch_compensating_main_assembly_2_sec",
                       "uv_compensating_main_assembly_5_sec",
                       "uv_compensating_main_assembly_2_sec",
                       "wmds_double_skin_main_2_sec", "wmds_double_skin_main_5_sec"}
    THEN "Stainless Steel 304"
    ELSE "Stainless Steel 202"

\* ensure_existing without the reactivation of an inactive design
ensure_existing_material_only(d, model_type) ==
    [d EXCEPT !.material_type = MATERIAL_TYPE_MAPPING(model_type)]

\* one pass of the loop for a design that get_or_create found: the material
\* type is brought to the default and an inactive design is reactivated
ensure_existing(d, model_type) ==
    [d EXCEPT !.material_type = MATERIAL_TYPE_MAPPING(model_type), !.is_active = TRUE]

\* the entry the loop appends for the model type
ensure_entry(model_type, action, id) ==
    [model_type |-> model_type, title |-> MODEL_TYPE_MAPPING(model_type),
     action |-> action, id |-> id]

\* what the pass for one model type does with the rows get(title=title)
\* matches: none, the design is created; one, it is updated; more, get()
\* raises MultipleObjectsReturned and the function is left
ensure_one(r, model_type, hits) ==
    IF hits = {}
    THEN [designs |-> Append(r.designs,
                             [new_design(r.designs, MODEL_TYPE_MAPPING(model_type), NoUser)
                                 EXCEPT !.material_type = MATERIAL_TYPE_MAPPING(model_type)]),
          created_or_updated |-> Append(r.created_or_updated,
                                        ensure_entry(model_type, "created", next_id(r.designs))),
          raised |-> "none"]
    ELSE IF Cardinality(hits) > 1
    THEN [r EXCEPT !.raised = "MultipleObjectsReturned"]
    ELSE [designs |-> [i \in 1..Len(r.designs) |->
                          IF i \in hits THEN ensure_existing(r.designs[i], model_type)
                          ELSE r.designs[i]],
          created_or_updated |->
              Append(r.created_or_updated,
                     ensure_entry(model_type,
                                  IF \E i \in hits : ~r.designs[i].is_active
                                  THEN "reactivated" ELSE "exists",
                                  r.designs[CHOOSE i \in hits : TRUE].id)),
          raised |-> "none"]

\* the loop "for model_type, title in MODEL_TYPE_MAPPING.items()" from the
\* k-th key on
RECURSIVE ensure_from(_, _)
ensure_from(r, k) ==
    IF k > Len(ModelTypeKeys) \/ r.raised # "none" THEN r
    ELSE ensure_from(ensure_one(r, ModelTypeKeys[k],
                                {i \in 1..Len(r.designs) :
                                    r.designs[i].title = MODEL_TYPE_MAPPING(ModelTypeKeys[k])}),
                     k + 1)

\* ensure_model_type_designs(): the table after the call, the list it
\* returns, and the exception that leaves it ("none": it returns)
ensure_model_type_designs(ds) ==
    ensure_from([designs |-> ds, created_or_updated |-> <<>>, raised |-> "none"], 1)

\* ChimneyDesignViewSet.partial_update with is_active = false: the queryset
\* holds the active designs only
deactivate(ds, id) ==
    [i \in 1..Len(ds) |-> IF ds[i].id = id THEN [ds[i] EXCEPT !.is_active = FALSE] ELSE ds[i]]

\* request.user.is_staff
is_staff(user) == user = "admin"

\* no id parameter
NoId == 0

\* default_storage.delete and Model.delete: q without x
Without(q, x) == SelectSeq(q, LAMBDA y : y # x)

\* delete_glb_file that removes every file of the design, not only the one
\* with the id
delete_glb_file_whole_design(fs, ds, gs, user, id) ==
    LET st == [files |-> fs, designs |-> ds, glb_files |-> gs]
        rows == {i \in 1..Len(gs) : gs[i].id = id}
        glb_file == gs[CHOOSE i \in rows : TRUE]
        design == ds[row_of(ds, glb_file.design)]
        stored == {MEDIA_ROOT \o gs[i].file : i \in {j \in 1..Len(gs) : gs[j].design = design.id}}
    IN  IF user = NoUser
        THEN [st |-> st, response |-> plain_response(401, "Authentication required", "none", FALSE)]
        ELSE IF id = NoId
        THEN [st |-> st, response |-> plain_response(400, "GLB file ID parameter required", "none", FALSE)]
        ELSE IF rows = {}
        THEN [st |-> st, response |-> plain_response(500, "Delete error", "none", FALSE)]
        ELSE IF ~(is_staff(user) \/ design.created_by = user)
        THEN [st |-> st, response |-> plain_response(403, "Permission denied", "none", FALSE)]
        ELSE [st |-> [files |-> SelectSeq(fs, LAMBDA f : f \notin stored),
                      designs |-> ds,
                      glb_files |-> SelectSeq(gs, LAMBDA g : g.design # design.id)],
              response |-> plain_response(200, "deleted", "none", FALSE)]

\* the view delete_glb_file for the user and the id parameter
delete_glb_file(fs, ds, gs, user, id) ==
    LET st == [files |-> fs, designs |-> ds, glb_files |-> gs]
        rows == {i \in 1..Len(gs) : gs[i].id = id}
        glb_file == gs[CHOOSE i \in rows : TRUE]
        design == ds[row_of(ds, glb_file.design)]
    IN  IF user = NoUser
        THEN [st |-> st, response |-> plain_response(401, "Authentication required", "none", FALSE)]
        ELSE IF id = NoId
        THEN [st |-> st, response |-> plain_response(400, "GLB file ID parameter required", "none", FALSE)]
        ELSE IF rows = {}    \* Http404 of get_object_or_404, caught by "except Exception"
        THEN [st |-> st, response |-> plain_response(500, "Delete error", "none", FALSE)]
        ELSE IF ~(is_staff(user) \/ design.created_by = user)
        THEN [st |-> st, response |-> plain_response(403, "Permission denied", "none", FALSE)]
        ELSE [st |-> [files |-> Without(fs, MEDIA_ROOT \o glb_file.file),
                      designs |-> ds,
                      glb_files |-> Without(gs, glb_file)],
              response |-> plain_response(200, "deleted", "none", FALSE)]

\* the view delete_all_glb_files for the user and the type parameter: every
\* DesignGLBFile of the design and its stored file are removed; the design
\* row is not written
delete_all_glb_files(fs, ds, gs, user, model_type) ==
    LET st == [files |-> fs, designs |-> ds, glb_files |-> gs]
        found == get_design_by_model_type(ds, model_type)
        design == ds[row_of(ds, found)]
        stored == {MEDIA_ROOT \o gs[i].file : i \in {j \in 1..Len(gs) : gs[j].design = found}}
    IN  IF user = NoUser
        THEN [st |-> st, response |-> plain_response(401, "Authentication required", "none", FALSE)]
        ELSE IF model_type = Absent
        THEN [st |-> st, response |-> plain_response(400, "Model type parameter required", "none", FALSE)]
        ELSE IF found = NoDesign
        THEN [st |-> st, response |-> plain_response(404, "No design found", "none", FALSE)]
        ELSE IF ~(is_staff(user) \/ design.created_by = user)
        THEN [st |-> st, response |-> plain_response(403, "Permission denied", "none", FALSE)]
        ELSE IF stored = {}
        THEN [st |-> st, response |-> plain_response(200, "No GLB files found", "none", FALSE)]
        ELSE [st |-> [files |-> SelectSeq(fs, LAMBDA f : f \notin stored),
                      designs |-> ds,
                      glb_files |-> SelectSeq(gs, LAMBDA g : g.design # found)],
              response |-> plain_response(200, "deleted", "none", FALSE)]

\* the view delete_model_by_type for the user and the type parameter.  The
\* permission class IsAuthenticated answers a request without credentials
\* before the view runs; a type without design gets one (created_by None)
\* before the permission test; design.delete() cascades to the design's
\* DesignGLBFile rows and leaves the stored files.
delete_model_by_type(fs, ds, gs, user, model_type) ==
    LET st == [files |-> fs, designs |-> ds, glb_files |-> gs]
        found == get_design_by_model_type(ds, model_type)
        title == IF MODEL_TYPE_MAPPING(model_type) # Absent
                 THEN MODEL_TYPE_MAPPING(model_type)
                 ELSE title_of_unmapped(model_type)
        created == new_design(ds, title, NoUser)
        with_design == IF found = NoDesign THEN Append(ds, created) ELSE ds
        design == IF found = NoDesign THEN created ELSE ds[row_of(ds, found)]
    IN  IF user = NoUser
        THEN [st |-> st, response |-> plain_response(401, "Authentication required", "none", FALSE)]
        ELSE IF model_type = Absent
        THEN [st |-> st, response |-> plain_response(400, "Model type parameter required", "none", FALSE)]
        ELSE IF ~(is_staff(user) \/ design.created_by = user)
        THEN [st |-> [st EXCEPT !.designs = with_design],
              response |-> plain_response(403, "Permission denied", "none", FALSE)]
        ELSE [st |-> [files |-> fs,
                      designs |-> Without(with_design, design),
                      glb_files |-> SelectSeq(gs, LAMBDA g : g.design # design.id)],
              response |-> plain_response(200, "deleted", "none", FALSE)]

-----------------------------------------------------------------------------
(* The files and requests drawn                                            *)

n_GA_DS2_glb == <<"G", "A", "_", "D", "S", "2", ".", "g", "l", "b">>
n_GA_abcdef_glb == <<"G", "A", "_", "a", "b", "c", "d", "e", "f", ".", "g", "l", "b">>
n_GA_XYZ123_glb == <<"G", "A", "_", "X", "Y", "Z", "1", "2", "3", ".", "g", "l", "b">>
n_GA_sp_DS2_glb == <<"G", "A", " ", "D", "S", "2", ".", "g", "l", "b">>
n_GA_pct_DS2_glb == <<"G", "A", "%", "2", "0", "D", "S", "2", ".", "g", "l", "b">>
n_GA_DS2_XYZ123_glb == <<"G", "A", "_", "D", "S", "2", "_", "X", "Y", "Z", "1", "2", "3", ".", "g", "l", "b">>
n_GA_sp_DS2_XYZ123_glb == <<"G", "A", " ", "D", "S", "2", "_", "X", "Y", "Z", "1", "2", "3", ".", "g", "l", "b">>
n_a_br1_glb == <<"a", "[", "1", "]", ".", "g", "l", "b">>
n_a_br1_x9_glb == <<"a", "[", "1", "]", "_", "x", "9", ".", "g", "l", "b">>
n_logo_PNG == <<"l", "o", "g", "o", ".", "P", "N", "G">>
n_notes_txt == <<"n", "o", "t", "e", "s", ".", "t", "x", "t">>
n_data_dat == <<"d", "a", "t", "a", ".", "d", "a", "t">>
n_x_png == <<"x", ".", "p", "n", "g">>
n_missing_png == <<"m", "i", "s", "s", "i", "n", "g", ".", "p", "n", "g">>

\* the most files on disk
MaxFiles == 2

\* the files the media root may hold, as paths below MEDIA_ROOT
FileUniverse ==
    {MEDIA_ROOT \o p : p \in
        {<<n_models, n_original, n_GA_DS2_glb>>,
         <<n_models, n_original, n_GA_DS2_XYZ123_glb>>,
         <<n_models, n_GA_DS2_glb>>,
         <<n_models, n_GA_sp_DS2_glb>>,
         <<n_models, n_GA_abcdef_glb>>,
         <<n_models, n_GA_XYZ123_glb>>,
         <<n_models, n_a_br1_glb>>,
         <<n_logo_PNG>>,
         <<n_notes_txt>>,
         <<n_data_dat>>}}

\* the request paths drawn (relative to /media/)
RequestPaths ==
    {[abs |-> FALSE, segs |-> p] : p \in
        {<<n_models, n_GA_DS2_XYZ123_glb>>,
         <<n_models, n_GA_sp_DS2_XYZ123_glb>>,
         <<n_models, n_GA_DS2_glb>>,
         <<n_models, n_GA_sp_DS2_glb>>,
         <<n_models, n_GA_pct_DS2_glb>>,
         <<n_models, n_a_br1_x9_glb>>,
         <<n_models, n_original, n_GA_DS2_glb>>,
         <<n_logo_PNG>>,
         <<n_notes_txt>>,
         <<n_data_dat>>,
         <<n_logo_PNG, n_x_png>>,
         <<n_missing_png>>,
         <<n_models>>}}

\* request.method: the view does not tell GET from HEAD or POST
Methods == {"GET", "OPTIONS"}

\* request.META.get('HTTP_ORIGIN'): no header, a listed origin, another origin
Origins == {Absent, "http://localhost:3000", "http://example.test"}

Requests ==
    [method : Methods, path : RequestPaths, origin : Origins, accept_json : BOOLEAN]

NoRequest ==
    [method |-> "none", path |-> [abs |-> FALSE, segs |-> <<>>],
     origin |-> Absent, accept_json |-> FALSE]

\* the values uuid.uuid4() may return
uuid_a == <<"a", "3", "f", "2", "b", "8", "c", "1", "-", "5", "d", "4", "e", "-", "4", "f", "6", "a", "-", "8", "b", "7", "c", "-", "0", "1", "2", "3", "4", "5", "6", "7", "8", "9", "a", "b">>
uuid_7 == <<"7", "c", "9", "e", "6", "6", "7", "9", "-", "7", "4", "2", "5", "-", "4", "0", "d", "e", "-", "9", "4", "4", "b", "-", "e", "0", "7", "f", "c", "1", "f", "9", "0", "a", "e", "7">>

Uuids == {uuid_a, uuid_7}

\* uuid4 values do not repeat: the values no stored file carries yet
UnusedUuids(fs) == {u \in Uuids : \A i \in 1..Len(fs) : ~startswith(fs[i][Len(fs[i])], u)}

\* the most file parts of one upload request
MaxUploadFiles == 2

\* the names of the uploaded files
UploadNames == {n_GA_DS2_glb, n_notes_txt}

\* the sequences over S of length at most n
RECURSIVE SeqsUpTo(_, _)
SeqsUpTo(S, n) ==
    IF n = 0 THEN {<<>>}
    ELSE LET shorter == SeqsUpTo(S, n - 1)
         IN  shorter \cup {Append(q, x) : q \in {r \in shorter : Len(r) = n - 1}, x \in S}

\* model_type: not given, a mapped type, an unmapped type
ModelTypes == {Absent, "wmss_single_skin_1_sec", "custom_hood"}

\* file_type: not given, or one of the two types
FileTypes == {Absent, "model", "original"}

\* the POST requests to upload-glb: files is the list of file names under
\* 'files[]' or 'file', empty when the request carries neither
Uploads ==
    [files : SeqsUpTo(UploadNames, MaxUploadFiles), model_type : ModelTypes,
     file_type : FileTypes, user : {NoUser}]

NoUpload == [files |-> <<>>, model_type |-> Absent, file_type |-> Absent, user |-> NoUser]

\* the sequences of at most n distinct elements of S
RECURSIVE Arrangements(_, _)
Arrangements(S, n) ==
    IF n = 0 THEN {<<>>}
    ELSE LET shorter == Arrangements(S, n - 1)
         IN  shorter \cup
             UNION {{Append(q, x) : x \in S \ Range(q)} : q \in {r \in shorter : Len(r) = n - 1}}

\* no file lies below another file
ValidFiles(fs) == \A i, j \in 1..Len(fs) : ~IsProperPrefix(fs[i], fs[j])

-----------------------------------------------------------------------------
(* The state machine                                                       *)

Init ==
    /\ files \in {fs \in Arrangements(FileUniverse, MaxFiles) : ValidFiles(fs)}
    /\ DEBUG \in BOOLEAN
    /\ designs = <<>>
    /\ glb_files = <<>>
    /\ pc = "idle"
    /\ request = NoRequest
    /\ upload = NoUpload
    /\ response = NoResponse

\* a call of the view serve_media_file(request, path)
ServeMediaFile ==
    /\ pc = "idle"
    /\ \E req \in Requests :
          /\ request' = req
          /\ response' = serve_media_file(files, DEBUG, req)
    /\ pc' = "done"
    /\ UNCHANGED <<files, DEBUG, designs, glb_files, upload>>

\* the response has been sent and the request is over
Finish ==
    /\ pc # "idle"
    /\ pc' = "idle"
    /\ request' = NoRequest
    /\ upload' = NoUpload
    /\ response' = NoResponse
    /\ UNCHANGED <<files, DEBUG, designs, glb_files>>

Next == ServeMediaFile \/ Finish

Spec == Init /\ [][Next]_vars

\* a POST to upload-glb; one unused uuid4 value is drawn for each file that
\* is stored
UploadGlb ==
    /\ pc = "idle"
    /\ \E up \in Uploads :
          LET v == filter_files(up.files)
              n == IF v.ok THEN Len(v.filtered) ELSE 0
          IN  \E ids \in {q \in Arrangements(UnusedUuids(files), n) : Len(q) = n} :
                  LET r == upload_glb(files, designs, glb_files, up, ids)
                  IN  /\ files' = r.st.files
                      /\ designs' = r.st.designs
                      /\ glb_files' = r.st.glb_files
                      /\ response' = r.response
                      /\ upload' = up
    /\ pc' = "uploaded"
    /\ UNCHANGED <<DEBUG, request>>

\* the media root and the database of a fresh installation
InitUpload ==
    /\ files = <<>>
    /\ DEBUG \in BOOLEAN
    /\ designs = <<>>
    /\ glb_files = <<>>
    /\ pc = "idle"
    /\ request = NoRequest
    /\ upload = NoUpload
    /\ response = NoResponse

NextUpload == UploadGlb \/ ServeMediaFile \/ Finish

SpecUpload == InitUpload /\ [][NextUpload]_vars

-----------------------------------------------------------------------------
(* The design table: uploads, ensure_model_type_designs, deactivation      *)

\* the users that send requests: none, two customers, a staff member
Users == {NoUser, "alice", "bob", "admin"}

\* the users that upload
UploadUsers == {NoUser, "alice"}

\* the POSTs to upload-glb drawn here
DesignUploads ==
    [files : {<<>>, <<n_GA_DS2_glb>>},
     model_type : {Absent, "wmss_single_skin_1_sec", "wmss_single_skin_5_secs"},
     file_type : {Absent}, user : UploadUsers]

\* the POSTs to upload-image and upload-3d-object: the name of the file
\* part (empty: no file part), model_type, is_thumbnail
Posts ==
    [file : {<<>>, n_logo_PNG, n_GA_DS2_glb},
     model_type : {Absent, "wmss_single_skin_1_sec", "custom_hood"},
     is_thumbnail : BOOLEAN, user : UploadUsers]

\* the most designs that are inactive at a time, and the ids drawn for
\* requests that name a design or a file
MaxInactive == 1
MaxId == 2

\* the most designs in the table when a request may still add one
MaxDesigns == 3

\* an empty media root and an empty database
InitDesigns ==
    /\ files = <<>>
    /\ DEBUG = TRUE
    /\ designs = <<>>
    /\ glb_files = <<>>
    /\ pc = "idle"
    /\ request = NoRequest
    /\ upload = NoUpload
    /\ response = NoResponse

\* a POST to upload-glb
UploadGlbBy ==
    /\ pc = "idle"
    /\ \E up \in DesignUploads :
          \E ids \in {q \in Arrangements(UnusedUuids(files), Len(up.files)) :
                          Len(q) = Len(up.files)} :
              LET r == upload_glb(files, designs, glb_files, up, ids)
              IN  /\ files' = r.st.files
                  /\ designs' = r.st.designs
                  /\ glb_files' = r.st.glb_files
                  /\ response' = r.response
                  /\ upload' = up
    /\ pc' = "uploaded"
    /\ UNCHANGED <<DEBUG, request>>

\* a POST to upload-image
UploadImage ==
    /\ pc = "idle"
    /\ \E p \in Posts :
          \E id \in (IF p.file = <<>> THEN Uuids ELSE UnusedUuids(files)) :
              LET r == upload_image(files, designs, glb_files, p, id)
              IN  /\ files' = r.st.files
                  /\ designs' = r.st.designs
                  /\ glb_files' = r.st.glb_files
                  /\ response' = r.response
                  /\ upload' = p
    /\ pc' = "image_uploaded"
    /\ UNCHANGED <<DEBUG, request>>

\* a POST to upload-3d-object
Upload3dObject ==
    /\ pc = "idle"
    /\ \E p \in Posts :
          \E id \in (IF p.file = <<>> THEN Uuids ELSE UnusedUuids(files)) :
              LET r == upload_3d_object(files, designs, glb_files, p, id)
              IN  /\ files' = r.st.files
                  /\ designs' = r.st.designs
                  /\ glb_files' = r.st.glb_files
                  /\ response' = r.response
                  /\ upload' = p
    /\ pc' = "object_uploaded"
    /\ UNCHANGED <<DEBUG, request>>

\* a call of ensure_model_type_designs (from get_all_model_types or from the
\* admin action)
EnsureModelTypeDesigns ==
    /\ pc = "idle"
    /\ LET r == ensure_model_type_designs(designs)
       IN  /\ designs' = r.designs
           /\ response' = [created_or_updated |-> r.created_or_updated, raised |-> r.raised]
    /\ pc' = "ensured"
    /\ UNCHANGED <<files, DEBUG, glb_files, request, upload>>

\* a PATCH of the design viewset that sets is_active to false
DeactivateDesign ==
    /\ pc = "idle"
    /\ Cardinality({i \in 1..Len(designs) : ~designs[i].is_active}) < MaxInactive
    /\ \E i \in 1..Len(designs) :
          /\ designs[i].id <= MaxId
          /\ designs[i].is_active
          /\ designs' = deactivate(designs, designs[i].id)
    /\ UNCHANGED <<files, DEBUG, glb_files, pc, request, upload, response>>

NextDesigns ==
    \/ UploadGlbBy
    \/ UploadImage
    \/ Upload3dObject
    \/ EnsureModelTypeDesigns
    \/ DeactivateDesign
    \/ Finish

SpecDesigns == InitDesigns /\ [][NextDesigns]_vars

\* a DELETE to delete-glb-file with an id parameter
DeleteGlbFile ==
    /\ pc = "idle"
    /\ \E user \in Users, id \in {NoId} \cup 1..MaxId :
          LET r == delete_glb_file(files, designs, glb_files, user, id)
          IN  /\ files' = r.st.files
              /\ designs' = r.st.designs
              /\ glb_files' = r.st.glb_files
              /\ response' = r.response
              /\ upload' = [user |-> user, id |-> id]
    /\ pc' = "deleted"
    /\ UNCHANGED <<DEBUG, request>>

NextDelete == UploadGlbBy \/ DeleteGlbFile \/ Finish

SpecDelete == InitDesigns /\ [][NextDelete]_vars

\* a DELETE to delete-all-glb-files with a type parameter
DeleteAllGlbFiles ==
    /\ pc = "idle"
    /\ \E user \in Users, model_type \in {Absent, "wmss_single_skin_1_sec"} :
          LET r == delete_all_glb_files(files, designs, glb_files, user, model_type)
          IN  /\ files' = r.st.files
              /\ designs' = r.st.designs
              /\ glb_files' = r.st.glb_files
              /\ response' = r.response
              /\ upload' = [user |-> user, model_type |-> model_type]
    /\ pc' = "deleted_all"
    /\ UNCHANGED <<DEBUG, request>>

NextDeleteAll == UploadGlbBy \/ DeleteGlbFile \/ DeleteAllGlbFiles \/ Finish

SpecDeleteAll == InitDesigns /\ [][NextDeleteAll]_vars

\* a DELETE to delete-model with a type parameter
DeleteModelByType ==
    /\ pc = "idle"
    /\ Len(designs) < MaxDesigns
    /\ \E user \in Users, model_type \in ModelTypes :
          LET r == delete_model_by_type(files, designs, glb_files, user, model_type)
          IN  /\ files' = r.st.files
              /\ designs' = r.st.designs
              /\ glb_files' = r.st.glb_files
              /\ response' = r.response
              /\ upload' = [user |-> user, model_type |-> model_type]
    /\ pc' = "model_deleted"
    /\ UNCHANGED <<DEBUG, request>>

NextModels == UploadGlbBy \/ DeleteModelByType \/ Finish

SpecModels == InitDesigns /\ [][NextModels]_vars

-----------------------------------------------------------------------------
(* A media root of one name in every format                                *)

n_a_b == <<"a", "_", "b">>
n_a_sp_b == <<"a", " ", "b">>
n_a_b_x9 == <<"a", "_", "b", "_", "x", "9">>
ext_GLB == <<".", "G", "L", "B">>
ext_DWG == <<".", "D", "W", "G">>
ext_glbx == <<".", "g", "l", "b", "x">>
ext_dat == <<".", "d", "a", "t">>

\* the most files of the media root of formats
MaxFormatFiles == 1

\* the extensions drawn: the nine binary formats, two of them in upper case
\* as well, an image, a text file and two extensions no table knows
FormatExts ==
    {ext_glb, ext_gltf, ext_stp, ext_step, ext_stl, ext_obj, ext_fbx, ext_3ds, ext_dwg,
     ext_GLB, ext_DWG, ext_png, ext_txt, ext_dat, ext_glbx}

\* models/a_b.<ext> for every extension
FormatFiles == {MEDIA_ROOT \o <<n_models, n_a_b \o e>> : e \in FormatExts}

\* the name as stored, with a space for the underscore, and with a suffix
FormatRequestPaths ==
    {[abs |-> FALSE, segs |-> <<n_models, n \o e>>] :
        n \in {n_a_b, n_a_sp_b, n_a_b_x9}, e \in FormatExts}

FormatRequests ==
    [method : Methods, path : FormatRequestPaths, origin : Origins, accept_json : BOOLEAN]

\* a call of the view with a request of the set reqs
Serve(reqs) ==
    /\ pc = "idle"
    /\ \E req \in reqs :
          /\ request' = req
          /\ response' = serve_media_file(files, DEBUG, req)
    /\ pc' = "done"
    /\ UNCHANGED <<files, DEBUG, designs, glb_files, upload>>

InitFormats ==
    /\ files \in Arrangements(FormatFiles, MaxFormatFiles)
    /\ DEBUG \in BOOLEAN
    /\ designs = <<>>
    /\ glb_files = <<>>
    /\ pc = "idle"
    /\ request = NoRequest
    /\ upload = NoUpload
    /\ response = NoResponse

ServeFormat == Serve(FormatRequests)

NextFormats == ServeFormat \/ Finish

SpecFormats == InitFormats /\ [][NextFormats]_vars

-----------------------------------------------------------------------------
(* A media root with one model in several directories                      *)

n_uploads == <<"u", "p", "l", "o", "a", "d", "s">>
n_sub == <<"s", "u", "b">>
n_GA_DS2_x9_glb == <<"G", "A", "_", "D", "S", "2", "_", "x", "9", ".", "g", "l", "b">>

\* the most files of the media root of directories
MaxTreeFiles == 2

\* GA_DS2.glb in the media root, in uploads/, in models/, in
\* models/original/ and in models/sub/
TreeFiles ==
    {MEDIA_ROOT \o d \o <<n_GA_DS2_glb>> :
        d \in {<<>>, <<n_uploads>>, <<n_models>>, <<n_models, n_original>>, <<n_models, n_sub>>}}

\* GA_DS2_x9.glb requested in each of these directories
TreeRequestPaths ==
    {[abs |-> FALSE, segs |-> d \o <<n_GA_DS2_x9_glb>>] :
        d \in {<<>>, <<n_uploads>>, <<n_models>>, <<n_models, n_original>>, <<n_models, n_sub>>}}

TreeRequests ==
    [method : Methods, path : TreeRequestPaths, origin : Origins, accept_json : BOOLEAN]

InitTree ==
    /\ files \in Arrangements(TreeFiles, MaxTreeFiles)
    /\ DEBUG \in BOOLEAN
    /\ designs = <<>>
    /\ glb_files = <<>>
    /\ pc = "idle"
    /\ request = NoRequest
    /\ upload = NoUpload
    /\ response = NoResponse

ServeTree == Serve(TreeRequests)

NextTree == ServeTree \/ Finish

SpecTree == InitTree /\ [][NextTree]_vars

-----------------------------------------------------------------------------
(* A media root with one model under several spellings                     *)

n_ga_ds2_glb == <<"g", "a", "_", "d", "s", "2", ".", "g", "l", "b">>

\* the most files of the media root of spellings
MaxCaseFiles == 2

\* GA_DS2.glb and ga_ds2.glb in models/ and in models/original/, ga_ds2.glb
\* in uploads/, and a file that only the pattern relaxation can find
CaseFiles ==
    {MEDIA_ROOT \o p : p \in
        {<<n_models, n_GA_DS2_glb>>, <<n_models, n_original, n_GA_DS2_glb>>,
         <<n_models, n_ga_ds2_glb>>, <<n_models, n_original, n_ga_ds2_glb>>,
         <<n_uploads, n_ga_ds2_glb>>, <<n_models, n_GA_abcdef_glb>>}}

\* "GA DS2.glb" requested in models/, in uploads/ and in the media root
CaseRequestPaths ==
    {[abs |-> FALSE, segs |-> d \o <<n_GA_sp_DS2_glb>>] :
        d \in {<<>>, <<n_uploads>>, <<n_models>>}}

CaseRequests ==
    [method : Methods, path : CaseRequestPaths, origin : Origins, accept_json : BOOLEAN]

InitCase ==
    /\ files \in Arrangements(CaseFiles, MaxCaseFiles)
    /\ DEBUG \in BOOLEAN
    /\ designs = <<>>
    /\ glb_files = <<>>
    /\ pc = "idle"
    /\ request = NoRequest
    /\ upload = NoUpload
    /\ response = NoResponse

ServeCase == Serve(CaseRequests)

NextCase == ServeCase \/ Finish

SpecCase == InitCase /\ [][NextCase]_vars

-----------------------------------------------------------------------------
(* A project directory with files beside the media root                    *)

n_manage_py == <<"m", "a", "n", "a", "g", "e", ".", "p", "y">>
n_backend == <<"c", "h", "i", "m", "n", "e", "y", "_", "c", "r", "a", "f", "t", "_", "b", "a", "c", "k", "e", "n", "d">>
n_settings_py == <<"s", "e", "t", "t", "i", "n", "g", "s", ".", "p", "y">>

\* the most files of the project directory
MaxProjectFiles == 2

\* BASE_DIR holds manage.py and the settings package beside media/
ProjectFiles ==
    {MEDIA_ROOT \o <<n_models, n_GA_DS2_glb>>,
     MEDIA_ROOT \o <<n_logo_PNG>>,
     <<n_manage_py>>,
     <<n_backend, n_settings_py>>}

\* paths under /media/ as the URL pattern ^media/(?P<path>.*)$ captures
\* them: plain, with '..' segments, with an encoded '..', and with a leading
\* '/' (the URL /media//manage.py)
ProjectRequestPaths ==
    {[abs |-> FALSE, segs |-> <<n_models, n_GA_DS2_glb>>],
     [abs |-> FALSE, segs |-> <<n_logo_PNG>>],
     [abs |-> FALSE, segs |-> <<DotDot, n_manage_py>>],
     [abs |-> FALSE, segs |-> <<<<"%", "2", "e", "%", "2", "e">>, n_manage_py>>],
     [abs |-> FALSE, segs |-> <<n_models, DotDot, DotDot, n_backend, n_settings_py>>],
     [abs |-> FALSE, segs |-> <<n_models, DotDot, n_logo_PNG>>],
     [abs |-> TRUE, segs |-> <<n_manage_py>>],
     [abs |-> TRUE, segs |-> <<n_backend, n_settings_py>>]}

ProjectRequests ==
    [method : Methods, path : ProjectRequestPaths, origin : Origins, accept_json : BOOLEAN]

InitProject ==
    /\ files \in Arrangements(ProjectFiles, MaxProjectFiles)
    /\ DEBUG \in BOOLEAN
    /\ designs = <<>>
    /\ glb_files = <<>>
    /\ pc = "idle"
    /\ request = NoRequest
    /\ upload = NoUpload
    /\ response = NoResponse

ServeProject == Serve(ProjectRequests)

NextProject == ServeProject \/ Finish

SpecProject == InitProject /\ [][NextProject]_vars

-----------------------------------------------------------------------------
(* Concurrent requests: the view taken one filesystem access at a time     *)

\* the requests in flight at one time
Clients == {1, 2}

\* the local variables of a call in flight (file_path and how it was
\* chosen), kept in the slot of its response
local_vars(file_path, via) ==
    [plain_response(0, "none", "none", FALSE) EXCEPT !.file_path = file_path, !.via = via]

\* file_path kept in a variable of the module: a call reads the path the
\* other call in flight has stored
file_path_shared(locals, c) ==
    LET other == CHOOSE d \in Clients : d # c
    IN  IF locals[other].status = 0 /\ locals[other].file_path # <<>>
        THEN locals[other].file_path
        ELSE locals[c].file_path

\* file_path is a local of the call: each call reads its own
file_path_of(locals, c) == locals[c].file_path

\* view_step that runs the resolution again when open finds the file gone
view_step_retry(fs, debug, req, at, local) ==
    LET path == unquote_path(req.path)
        file_ext == splitext(basename(path))[2]
        norm == normalization_pass(fs, path)
        relaxed == pattern_relaxation(fs, path)
    IN  CASE at = "start" ->
                IF exists(fs, join_media(path))
                THEN [pc |-> "open", response |-> local_vars(join_media(path), "exact")]
                ELSE [pc |-> "normalize", response |-> local_vars(join_media(path), "none")]
          [] at = "normalize" ->
                [pc |-> "relax", response |-> local_vars(norm.file_path, norm.via)]
          [] at = "relax" ->
                IF exists(fs, local.file_path) \/ lower(file_ext) # ext_glb
                THEN [pc |-> "final", response |-> local]
                ELSE IF relaxed.kind = "raise"
                THEN [pc |-> "done",
                      response |-> plain_response(500, "none", "NotADirectoryError", FALSE)]
                ELSE IF relaxed.kind = "found"
                THEN [pc |-> "final", response |-> local_vars(relaxed.file_path, relaxed.via)]
                ELSE [pc |-> "final", response |-> local]
          [] at = "final" ->
                IF ~exists(fs, local.file_path)
                THEN [pc |-> "done", response |-> not_found(fs, req, path)]
                ELSE [pc |-> "open", response |-> local]
          [] at = "open" ->
                IF ~exists(fs, local.file_path)
                THEN [pc |-> "start", response |-> local_vars(<<>>, "none")]
                ELSE [pc |-> "done",
                      response |-> send_file(fs, debug, req, local.file_path, local.via)]

\* one step of a call of the view, from one filesystem access to the next:
\* "start" is the test of the exact path (line 25), "normalize" the four
\* candidates (lines 32-58), "relax" the test of line 62 and the pattern
\* relaxation, "final" the test of line 215, "open" the rest of the view
view_step(fs, debug, req, at, local) ==
    LET path == unquote_path(req.path)
        file_ext == splitext(basename(path))[2]
        norm == normalization_pass(fs, path)
        relaxed == pattern_relaxation(fs, path)
    IN  CASE at = "start" ->
                IF exists(fs, join_media(path))
                THEN [pc |-> "open", response |-> local_vars(join_media(path), "exact")]
                ELSE [pc |-> "normalize", response |-> local_vars(join_media(path), "none")]
          [] at = "normalize" ->
                [pc |-> "relax", response |-> local_vars(norm.file_path, norm.via)]
          [] at = "relax" ->
                IF exists(fs, local.file_path) \/ lower(file_ext) # ext_glb
                THEN [pc |-> "final", response |-> local]
                ELSE IF relaxed.kind = "raise"
                THEN [pc |-> "done",
                      response |-> plain_response(500, "none", "NotADirectoryError", FALSE)]
                ELSE IF relaxed.kind = "found"
                THEN [pc |-> "final", response |-> local_vars(relaxed.file_path, relaxed.via)]
                ELSE [pc |-> "final", response |-> local]
          [] at = "final" ->
                IF ~exists(fs, local.file_path)
                THEN [pc |-> "done", response |-> not_found(fs, req, path)]
                ELSE [pc |-> "open", response |-> local]
          [] at = "open" ->
                [pc |-> "done",
                 response |-> send_file(fs, debug, req, local.file_path, local.via)]

\* the files of the media root, each the file of one DesignGLBFile record
MaxRaceFiles == 2

RaceFiles ==
    {MEDIA_ROOT \o <<n_models, n_GA_DS2_glb>>,
     MEDIA_ROOT \o <<n_models, n_GA_abcdef_glb>>,
     MEDIA_ROOT \o <<n_models, n_ga_ds2_glb>>}

\* the stored name, by the exact path, with a space, with a suffix
RaceRequestPaths ==
    {[abs |-> FALSE, segs |-> <<n_models, name>>] :
        name \in {n_GA_DS2_glb, n_GA_sp_DS2_glb, n_GA_DS2_x9_glb}}

RaceRequests ==
    [method : {"GET"}, path : RaceRequestPaths, origin : {Absent}, accept_json : BOOLEAN]

\* the DesignGLBFile records of the files fs, all of one design of alice
records_of(fs) ==
    [i \in 1..Len(fs) |->
        [id |-> i, design |-> 1, file |-> SubSeq(fs[i], 2, Len(fs[i])),
         file_type |-> "model", file_name |-> fs[i][Len(fs[i])],
         is_primary |-> i = 1, order |-> i]]

InitSteps ==
    /\ files \in Arrangements(RaceFiles, MaxRaceFiles)
    /\ DEBUG = TRUE
    /\ designs = <<[new_design(<<>>, "WMSS Single Skin 1 Sec", "alice")
                       EXCEPT !.model_file = IF files = <<>> THEN <<>>
                                             ELSE SubSeq(files[1], 2, Len(files[1]))]>>
    /\ glb_files = records_of(files)
    /\ pc = [c \in Clients |-> "idle"]
    /\ request = [c \in Clients |-> NoRequest]
    /\ upload = NoUpload
    /\ response = [c \in Clients |-> NoResponse]

\* a request arrives and is routed to the view
Arrive(c) ==
    /\ pc[c] = "idle"
    /\ \E req \in RaceRequests : request' = [request EXCEPT ![c] = req]
    /\ pc' = [pc EXCEPT ![c] = "start"]
    /\ UNCHANGED <<files, DEBUG, designs, glb_files, upload, response>>

\* the call of client c runs up to its next filesystem access
ViewStep(c) ==
    /\ pc[c] \in {"start", "normalize", "relax", "final", "open"}
    /\ LET local == [response[c] EXCEPT !.file_path = file_path_of(response, c)]
           r == view_step(files, DEBUG, request[c], pc[c], local)
       IN  /\ pc' = [pc EXCEPT ![c] = r.pc]
           /\ response' = [response EXCEPT ![c] = r.response]
    /\ UNCHANGED <<files, DEBUG, designs, glb_files, upload, request>>

\* the response of client c has been sent
Leave(c) ==
    /\ pc[c] = "done"
    /\ pc' = [pc EXCEPT ![c] = "idle"]
    /\ request' = [request EXCEPT ![c] = NoRequest]
    /\ response' = [response EXCEPT ![c] = NoResponse]
    /\ UNCHANGED <<files, DEBUG, designs, glb_files, upload>>

NextSteps == \E c \in Clients : Arrive(c) \/ ViewStep(c) \/ Leave(c)

SpecSteps == InitSteps /\ [][NextSteps]_vars

\* a DELETE to delete-glb-file by the owner or by staff, answered between
\* two steps of the media requests
DeleteDuring ==
    /\ \E user \in {"alice", "admin"}, id \in 1..MaxRaceFiles :
          LET r == delete_glb_file(files, designs, glb_files, user, id)
          IN  /\ r.response.status = 200
              /\ files' = r.st.files
              /\ designs' = r.st.designs
              /\ glb_files' = r.st.glb_files
    /\ UNCHANGED <<DEBUG, pc, request, upload, response>>

NextRace == NextSteps \/ DeleteDuring

SpecRace == InitSteps /\ [][NextRace]_vars

-----------------------------------------------------------------------------
(* Concurrent uploads: upload_glb taken one database or storage access at  *)
(* a time                                                                  *)

uuid_c == <<"c", "0", "f", "f", "e", "e", "0", "0", "-", "1", "1", "1", "1", "-", "4", "2", "2", "2", "-", "a", "3", "3", "3", "-", "4", "4", "4", "4", "5", "5", "5", "5", "6", "6", "6", "6">>

uuid_e == <<"e", "9", "9", "9", "8", "8", "8", "8", "-", "7", "7", "7", "7", "-", "4", "6", "6", "6", "-", "b", "5", "5", "5", "-", "0", "0", "0", "0", "1", "1", "1", "1", "2", "2", "2", "2">>

\* the values uuid.uuid4() may return
RaceUuids == {uuid_a, uuid_7, uuid_c, uuid_e}

\* the most files the concurrent uploads store together
MaxStored == 3

\* the POST requests to upload-glb that run concurrently: one or two files
\* for one model type
RaceUploads ==
    [files : {<<n_GA_DS2_glb>>, <<n_GA_DS2_glb, n_GA_DS2_glb>>},
     model_type : {"wmss_single_skin_1_sec"},
     file_type : {"model", "original"}, user : {NoUser}]

\* the local variables of a call of upload_glb in flight: design is the
\* ChimneyDesign object the call holds (a copy of the row as it was read or
\* created), idx the position in files_to_upload, file_path, is_primary and
\* max_order the values of the current round of the loop
upload_locals(design, idx, file_path, is_primary, max_order) ==
    [status |-> 0, design |-> design, idx |-> idx, file_path |-> file_path,
     is_primary |-> is_primary, max_order |-> max_order]

NoLocals == upload_locals(NoDesign, 0, <<>>, FALSE, 0)

\* one step of a call of upload_glb on st = [files, designs, glb_files],
\* from one access of the database or the storage to the next; id is the
\* value of uuid.uuid4() for the step that stores a file.
\*   "lookup": get_design_by_model_type (line 721)
\*   "create": ChimneyDesign.objects.create (lines 724-730)
\*   "store":  default_storage.save (line 737)
\*   "check":  the queries for existing_primary and max_order (lines 762-770)
\*   "record": DesignGLBFile.objects.create and design.save() (lines 773-794)
upload_step(st, up, at, local, id) ==
    LET found == get_design_by_model_type(st.designs, up.model_type)
        created == new_design(st.designs, MODEL_TYPE_MAPPING(up.model_type), up.user)
        name == up.files[local.idx + 1]
        file_path == <<n_models, id \o <<"_">> \o name>>
        mine == {i \in 1..Len(st.glb_files) : st.glb_files[i].design = local.design.id}
        existing_primary ==
            \E i \in mine : st.glb_files[i].is_primary /\ st.glb_files[i].file_type = "model"
        max_order ==
            IF mine = {} THEN 0
            ELSE CHOOSE m \in {st.glb_files[i].order : i \in mine} :
                     \A i \in mine : st.glb_files[i].order <= m
        glb_file == [id |-> next_id(st.glb_files), design |-> local.design.id,
                     file |-> local.file_path, file_type |-> up.file_type,
                     file_name |-> name, is_primary |-> local.is_primary,
                     order |-> local.max_order + local.idx + 1]
        d == local.design
        saved ==
            IF up.file_type = "model" /\ d.model_file = <<>>
            THEN [d EXCEPT !.model_file = local.file_path,
                           !.original_file_format = file_format(name)]
            ELSE IF up.file_type = "original" /\ d.original_file = <<>>
            THEN [d EXCEPT !.original_file = local.file_path,
                           !.original_file_format = file_format(name)]
            ELSE d
        more == local.idx + 1 < Len(up.files)
    IN  CASE at = "lookup" ->
                IF found = NoDesign
                THEN [pc |-> "create", st |-> st, response |-> local]
                ELSE [pc |-> "store", st |-> st,
                      response |-> [local EXCEPT
                                       !.design = st.designs[row_of(st.designs, found)]]]
          [] at = "create" ->
                [pc |-> "store",
                 st |-> [st EXCEPT !.designs = Append(st.designs, created)],
                 response |-> [local EXCEPT !.design = created]]
          [] at = "store" ->
                [pc |-> "check",
                 st |-> [st EXCEPT !.files = Append(st.files, MEDIA_ROOT \o file_path)],
                 response |-> [local EXCEPT !.file_path = file_path]]
          [] at = "check" ->
                [pc |-> "record", st |-> st,
                 response |-> [local EXCEPT
                                  !.is_primary = up.file_type = "model" /\ local.idx = 0
                                                 /\ ~existing_primary,
                                  !.max_order = max_order]]
          [] at = "record" ->
                [pc |-> IF more THEN "store" ELSE "done",
                 st |-> [st EXCEPT
                            !.glb_files = Append(st.glb_files, glb_file),
                            !.designs = [st.designs EXCEPT
                                            ![row_of(st.designs, d.id)] = saved]],
                 response |-> IF more
                              THEN [local EXCEPT !.design = saved, !.idx = local.idx + 1]
                              ELSE plain_response(201, "uploaded", "none", FALSE)]

InitUploads ==
    /\ files = <<>>
    /\ DEBUG = TRUE
    /\ designs = <<>>
    /\ glb_files = <<>>
    /\ pc = [c \in Clients |-> "idle"]
    /\ request = [c \in Clients |-> NoRequest]
    /\ upload = [c \in Clients |-> NoUpload]
    /\ response = [c \in Clients |-> NoResponse]

\* the files the calls in flight have still to store
Pending ==
    LET left(c) == IF pc[c] \in {"idle", "done"} THEN 0
                   ELSE IF pc[c] \in {"lookup", "create", "store"}
                   THEN Len(upload[c].files) - response[c].idx
                   ELSE Len(upload[c].files) - response[c].idx - 1
    IN  left(1) + left(2)

\* a POST arrives and passes the validation of its file names
ArriveUpload(c) ==
    /\ pc[c] = "idle"
    /\ \E up \in RaceUploads :
          /\ Len(files) + Pending + Len(up.files) <= MaxStored
          /\ upload' = [upload EXCEPT ![c] = up]
    /\ pc' = [pc EXCEPT ![c] = "lookup"]
    /\ response' = [response EXCEPT ![c] = NoLocals]
    /\ UNCHANGED <<files, DEBUG, designs, glb_files, request>>

\* the call of client c runs up to its next access
UploadStep(c) ==
    /\ pc[c] \in {"lookup", "create", "store", "check", "record"}
    /\ \E id \in IF pc[c] # "store" THEN {<<>>}
                  ELSE {u \in RaceUuids :
                           \A i \in 1..Len(files) : ~startswith(files[i][Len(files[i])], u)} :
          LET r == upload_step([files |-> files, designs |-> designs,
                                glb_files |-> glb_files],
                               upload[c], pc[c], response[c], id)
          IN  /\ files' = r.st.files
              /\ designs' = r.st.designs
              /\ glb_files' = r.st.glb_files
              /\ pc' = [pc EXCEPT ![c] = r.pc]
              /\ response' = [response EXCEPT ![c] = r.response]
    /\ UNCHANGED <<DEBUG, request, upload>>

\* the response of client c has been sent
LeaveUpload(c) ==
    /\ pc[c] = "done"
    /\ pc' = [pc EXCEPT ![c] = "idle"]
    /\ upload' = [upload EXCEPT ![c] = NoUpload]
    /\ response' = [response EXCEPT ![c] = NoResponse]
    /\ UNCHANGED <<files, DEBUG, designs, glb_files, request>>

NextUploads == \E c \in Clients : ArriveUpload(c) \/ UploadStep(c) \/ LeaveUpload(c)

SpecUploads == InitUploads /\ [][NextUploads]_vars

-----------------------------------------------------------------------------
(* EmailBackend.authenticate                                               *)

\* the most rows of the user table
MaxUsers == 2

\* usernames and email addresses; a username may have the form of an address
UserNames == {"alice", "bob@example.test"}
Emails == {"", "bob@example.test", "carol@example.test"}
Passwords == {"pw1", "pw2"}

\* the rows a user table may hold: username is unique, email is not
UserRows ==
    [username : UserNames, email : Emails, password : Passwords, is_active : BOOLEAN]

\* the user tables, in the order of the primary key
UserTables ==
    {t \in SeqsUpTo(UserRows, MaxUsers) :
        \A i, j \in 1..Len(t) : t[i].username = t[j].username => i = j}

\* the rows of Q(username=username) | Q(email=username), by primary key
matching(users, username) ==
    SelectSeq(users, LAMBDA u : u.username = username \/ u.email = username)

\* EmailBackend.authenticate(request, username, password, email=...): the
\* username of the user returned, Absent for None.  A queryset without
\* ordering gives first() the row with the lowest primary key.
authenticate(users, username, password, email) ==
    LET name == IF username = Absent THEN email ELSE username
        hits == matching(users, name)
        user == hits[1]
    IN  IF name = Absent \/ password = Absent THEN Absent
        ELSE IF hits = <<>> THEN Absent
        ELSE IF user.password = password /\ user.is_active THEN user.username
        ELSE Absent

NoCredentials == [users |-> <<>>, username |-> Absent, password |-> Absent, email |-> Absent]

InitAuth ==
    /\ files = <<>>
    /\ DEBUG = TRUE
    /\ designs = <<>>
    /\ glb_files = <<>>
    /\ pc = "idle"
    /\ request = NoCredentials
    /\ upload = NoUpload
    /\ response = Absent

\* a call of the backend on a user table with the credentials of a login
Authenticate ==
    /\ pc = "idle"
    /\ \E users \in UserTables,
          username \in {Absent} \cup UserNames \cup Emails,
          password \in {Absent} \cup Passwords,
          email \in {Absent} \cup Emails :
          /\ (username # Absent => email = Absent)
          /\ request' = [users |-> users, username |-> username,
                         password |-> password, email |-> email]
          /\ response' = authenticate(users, username, password, email)
    /\ pc' = "authenticated"
    /\ UNCHANGED <<files, DEBUG, designs, glb_files, upload>>

\* the call has returned
Returned ==
    /\ pc = "authenticated"
    /\ pc' = "idle"
    /\ request' = NoCredentials
    /\ response' = Absent
    /\ UNCHANGED <<files, DEBUG, designs, glb_files, upload>>

NextAuth == Authenticate \/ Returned

SpecAuth == InitAuth /\ [][NextAuth]_vars

-----------------------------------------------------------------------------
(* Vocabulary of the properties                                            *)

\* the request path as the view sees it after unquote, and its parts
ReqPath == unquote_path(request.path)
ReqDirect == join_media(ReqPath)
ReqDir == join_media(dirname(ReqPath))
ReqName == splitext(basename(ReqPath))[1]
ReqExt == splitext(basename(ReqPath))[2]

\* a GET request has been answered
Answered == pc = "done" /\ request.method = "GET"

\* the request name is <logical-name>_<suffix>: the text before and after
\* its last underscore
LogicalName == SubSeq(ReqName, 1, LastIndexOf(ReqName, "_") - 1)
Suffix == SubSeq(ReqName, LastIndexOf(ReqName, "_") + 1, Len(ReqName))
HasShortSuffix ==
    /\ LastIndexOf(ReqName, "_") > 1
    /\ isalnum(Suffix)
    /\ Len(Suffix) <= SuffixMaxLen

\* the .glb files on disk in the directory with normalised path d
GlbFilesIn(d) ==
    {files[i] : i \in {j \in 1..Len(files) :
                          Parent(files[j]) = d /\ endswith(files[j][Len(files[j])], ext_glb)}}

\* no pass of the resolver finds a file for the request
NoCandidateResolves == resolve(files, ReqPath).kind # "found"

-----------------------------------------------------------------------------
(* C1                                                                      *)

\* the content type the static map, the MIME guesser and the default give
\* to the lower-cased extensions of the files drawn
C1_ExpectedType(ext) ==
    CASE ext = ext_glb -> "model/gltf-binary"
      [] ext = ext_png -> "image/png"
      [] ext = ext_txt -> "text/plain"
      [] OTHER -> "application/octet-stream"

\* C1: when a regular file exists at MEDIA_ROOT/p, the GET for p is answered
\* 200 with exactly that file, found by the direct probe and by no fallback
\* pass, and with the content type of its lower-cased extension (static map,
\* else MIME guesser, else application/octet-stream).
C1_ExactFileServed ==
    (Answered /\ isfile(files, ReqDirect)) =>
        /\ response.status = 200
        /\ response.body = "file"
        /\ response.via = "exact"
        /\ response.file = realpath(files, ReqDirect)
        /\ response.content_type = C1_ExpectedType(lower(ReqExt))

\* an upper-case extension is served with the map's type for its lower case
C1_Witness ==
    /\ Answered
    /\ isfile(files, ReqDirect)
    /\ ReqExt # lower(ReqExt)
    /\ response.status = 200
    /\ response.content_type = "image/png"

-----------------------------------------------------------------------------
(* C2                                                                      *)

\* C2: a GET for which no candidate resolves ends in a 404 (JSON body or
\* Http404) and never in an exception that leaves the view.
C2_NotFoundIs404 ==
    (Answered /\ NoCandidateResolves) =>
        /\ response.status = 404
        /\ response.raised \in {"none", "Http404"}

-----------------------------------------------------------------------------
(* C3                                                                      *)

\* C3: a .glb request <logical-name>_<suffix>.glb whose exact path is
\* missing, with <logical-name>.glb the only .glb file in the requested
\* directory, is resolved by pattern relaxation to <logical-name>.glb.
C3_SuffixRelaxed ==
    (/\ Answered
     /\ ReqExt = ext_glb
     /\ ~exists(files, ReqDirect)
     /\ HasShortSuffix
     /\ isdir(files, ReqDir)
     /\ GlbFilesIn(realpath(files, ReqDir)) = {Append(realpath(files, ReqDir), LogicalName \o ext_glb)})
    => /\ response.status = 200
       /\ response.file = Append(realpath(files, ReqDir), LogicalName \o ext_glb)
       /\ response.via \in {"base_pattern", "shorter_pattern", "first_part"}

-----------------------------------------------------------------------------
(* C4                                                                      *)

\* the file in the request's directory named like the request with every
\* space of the name replaced by an underscore
C4_Underscored == join_name(ReqDir, replace(ReqName, " ", "_") \o ReqExt)

\* C4: when the exact path is missing, the name holds spaces and the
\* underscore-substituted file exists in the same directory, the GET is
\* answered with that file.
C4_SpacesToUnderscores ==
    (/\ Answered
     /\ ~exists(files, ReqDirect)
     /\ " " \in Range(ReqName)
     /\ isfile(files, C4_Underscored))
    => /\ response.status = 200
       /\ response.file = realpath(files, C4_Underscored)

\* the underscore file is served while models/original/ holds one as well
C4_Witness ==
    /\ Answered
    /\ ~exists(files, ReqDirect)
    /\ " " \in Range(ReqName)
    /\ isfile(files, C4_Underscored)
    /\ isfile(files, MEDIA_ROOT \o <<n_models, n_original, replace(ReqName, " ", "_") \o ReqExt>>)
    /\ response.file = realpath(files, C4_Underscored)
    /\ response.via = "underscores"

-----------------------------------------------------------------------------
(* C5                                                                      *)

\* the file models/original/<P>.glb for the request models/<P>_<suffix>.glb
C5_Original == MEDIA_ROOT \o <<n_models, n_original, LogicalName \o ext_glb>>

\* C5: with models/original/<P>.glb on disk and nothing at the requested
\* path, the GET for models/<P>_<suffix>.glb is resolved by pattern
\* relaxation to that file and served as model/gltf-binary.
C5_OriginalFound ==
    (/\ Answered
     /\ ReqExt = ext_glb
     /\ ReqDir = MEDIA_ROOT \o <<n_models>>
     /\ ~exists(files, ReqDirect)
     /\ HasShortSuffix
     /\ isfile(files, C5_Original))
    => /\ response.status = 200
       /\ response.file = C5_Original
       /\ response.via \in {"base_pattern", "shorter_pattern", "first_part"}
       /\ response.content_type = "model/gltf-binary"

-----------------------------------------------------------------------------
(* C6                                                                      *)

\* the files on disk named models/<uuid>_<name>
C6_StoredAs(name) ==
    {f \in Range(files) :
        \E u \in Uuids : f = MEDIA_ROOT \o <<n_models, u \o <<"_">> \o name>>}

\* C6: when upload_glb has stored a file as models/<uuid>_<name>.glb and
\* there is no file models/<name>.glb, the GET for models/<name>.glb is
\* answered with a stored file of that name.
C6_UuidPrefixTolerated ==
    (/\ Answered
     /\ ReqExt = ext_glb
     /\ ReqDir = MEDIA_ROOT \o <<n_models>>
     /\ ~exists(files, ReqDirect)
     /\ C6_StoredAs(basename(ReqPath)) # {})
    => /\ response.status = 200
       /\ response.file \in C6_StoredAs(basename(ReqPath))

-----------------------------------------------------------------------------
(* C7                                                                      *)

\* the directory in which the served file was found
C7_Dir == SubSeq(response.file_path, 1, Len(response.file_path) - 1)

\* the glob of the first i tokens of the base pattern in that directory
C7_Glob(i) ==
    glob(files, C7_Dir,
         join(SubSeq(split(base_pattern(ReqName), "_"), 1, i), "_") \o <<"*">> \o ReqExt)

\* the candidates: the glob of the longest shortened pattern that matches
C7_Candidates ==
    LET n == Len(split(base_pattern(ReqName), "_")) - 1
        hits == {i \in 1..n : C7_Glob(i) # <<>>}
    IN  IF hits = {} THEN <<>>
        ELSE C7_Glob(CHOOSE i \in hits : \A j \in hits : j <= i)

\* the score of a candidate: the tokens of the original request that occur
\* in its file name, plus the length-similarity bonus
C7_Score(f) ==
    LET match_name == f[Len(f)]
        d == Len(match_name) - Len(ReqName)
        length_diff == IF d < 0 THEN -d ELSE d
    IN  Cardinality({k \in 1..Len(request_parts(ReqName)) :
                        contains(match_name, request_parts(ReqName)[k])})
        + (IF LengthBonus - length_diff > 0 THEN LengthBonus - length_diff ELSE 0)

\* C7: a file served by a shortened pattern is the candidate of that
\* pattern's glob with the highest score over the original request's tokens,
\* and the first such candidate in enumeration order.
C7_HighestScoreWins ==
    (Answered /\ response.status = 200 /\ response.via = "shorter_pattern") =>
        \E k \in 1..Len(C7_Candidates) :
            /\ C7_Candidates[k] = response.file_path
            /\ \A j \in 1..Len(C7_Candidates) :
                   /\ C7_Score(C7_Candidates[j]) <= C7_Score(C7_Candidates[k])
                   /\ (j < k => C7_Score(C7_Candidates[j]) < C7_Score(C7_Candidates[k]))

-----------------------------------------------------------------------------
(* C8                                                                      *)

\* C8: an OPTIONS request is answered with a success status, an empty body
\* and the CORS headers, whether or not a file resolves.
C8_OptionsSucceeds ==
    (pc = "done" /\ request.method = "OPTIONS") =>
        /\ response.status \in {200, 204}
        /\ response.body = "none"
        /\ response.raised = "none"
        /\ response.allow_methods = "GET, HEAD, OPTIONS"

-----------------------------------------------------------------------------
(* C9                                                                      *)

\* C9: in DEBUG mode a successful response echoes the request's Origin with
\* credentials 'true'; without an Origin header it carries '*' with
\* credentials 'false'; '*' never goes with credentials 'true'.
C9_DebugCors ==
    (pc = "done" /\ DEBUG /\ response.status = 200) =>
        /\ request.origin # Absent =>
               /\ response.allow_origin = request.origin
               /\ response.allow_credentials = "true"
        /\ request.origin = Absent =>
               /\ response.allow_origin = "*"
               /\ response.allow_credentials = "false"
        /\ ~(response.allow_origin = "*" /\ response.allow_credentials = "true")

\* both cases: an origin outside the allow-list is echoed, and a request
\* without Origin gets the wildcard
C9_Witness ==
    /\ pc = "done"
    /\ DEBUG
    /\ response.status = 200
    /\ \/ /\ request.origin = "http://example.test"
          /\ response.allow_origin = "http://example.test"
          /\ response.allow_credentials = "true"
       \/ /\ request.origin = Absent
          /\ response.allow_origin = "*"

-----------------------------------------------------------------------------
(* C10                                                                     *)

\* C10: in production mode a successful response carries
\* Access-Control-Allow-Origin only for an Origin of the allow-list, which
\* it echoes; for a missing or unlisted origin the header is not set and
\* credentials are 'false'.  In both modes Access-Control-Allow-Methods is
\* 'GET, HEAD, OPTIONS'.
C10_ProductionCors ==
    (pc = "done" /\ response.status = 200) =>
        /\ response.allow_methods = "GET, HEAD, OPTIONS"
        /\ ~DEBUG =>
              /\ response.allow_origin # Absent =>
                     /\ request.origin \in CORS_ALLOWED_ORIGINS
                     /\ response.allow_origin = request.origin
              /\ request.origin \in CORS_ALLOWED_ORIGINS =>
                     response.allow_origin = request.origin
              /\ request.origin \notin CORS_ALLOWED_ORIGINS =>
                     /\ response.allow_origin = Absent
                     /\ response.allow_credentials = "false"

\* an unlisted origin gets no Access-Control-Allow-Origin in production
C10_Witness ==
    /\ pc = "done"
    /\ ~DEBUG
    /\ response.status = 200
    /\ request.origin = "http://example.test"
    /\ response.allow_origin = Absent
    /\ response.allow_credentials = "false"
    /\ response.allow_methods = "GET, HEAD, OPTIONS"


-----------------------------------------------------------------------------
(* C11                                                                     *)

\* C11: a GET for which no candidate resolves is answered 404 with the JSON
\* body when the Accept header contains application/json (the view is routed
\* at ^media/, so the path never starts with /api/), and with the standard
\* Http404 response when it does not.
C11_NotFoundForm ==
    (Answered /\ NoCandidateResolves) =>
        /\ response.status = 404
        /\ response.body = (IF request.accept_json THEN "json" ELSE "html")
        /\ response.raised = (IF request.accept_json THEN "none" ELSE "Http404")

-----------------------------------------------------------------------------
(* C12                                                                     *)

\* the binary and model formats the claim lists
C12_BinaryFormats ==
    {<<".", "g", "l", "b">>, <<".", "g", "l", "t", "f">>, <<".", "s", "t", "p">>,
     <<".", "s", "t", "e", "p">>, <<".", "s", "t", "l">>, <<".", "o", "b", "j">>,
     <<".", "f", "b", "x">>, <<".", "3", "d", "s">>, <<".", "d", "w", "g">>}

\* the name and the extension (lower-cased, as the view compares it) of the
\* file that was resolved
C12_ResolvedName == response.file_path[Len(response.file_path)]
C12_ResolvedExt == lower(splitext(C12_ResolvedName)[2])

\* C12: on a successful response Accept-Ranges: bytes and Content-Disposition:
\* inline with the basename of the resolved file (not of the requested path)
\* are set if and only if the resolved file's extension is one of the binary
\* and model formats; otherwise neither header is set.
C12_BinaryHeaders ==
    (Answered /\ response.status = 200) =>
        IF C12_ResolvedExt \in C12_BinaryFormats
        THEN /\ response.accept_ranges = "bytes"
             /\ response.content_disposition = C12_ResolvedName
        ELSE /\ response.accept_ranges = Absent
             /\ response.content_disposition = <<>>

\* a .dwg request with a space is served from the underscored file, and the
\* header carries the name of the file, not of the request
C12_Witness ==
    /\ Answered
    /\ response.status = 200
    /\ ReqName = n_a_sp_b
    /\ ReqExt = ext_dwg
    /\ response.accept_ranges = "bytes"
    /\ response.content_disposition = n_a_b \o ext_dwg
    /\ response.content_disposition # basename(ReqPath)

-----------------------------------------------------------------------------
(* C13                                                                     *)

\* the POST that has just been answered carried no file part
C13_NoFilePart ==
    \/ pc = "uploaded" /\ upload.files = <<>>
    \/ pc \in {"image_uploaded", "object_uploaded"} /\ upload.file = <<>>

\* C13: a POST to upload-glb, upload-image or upload-3d-object without a file
\* part is answered 400 with an error that contains 'No file provided', and
\* it stores no file and creates or modifies no ChimneyDesign and no
\* DesignGLBFile record, with or without a model_type.
C13_NoFileNoChange ==
    [][C13_NoFilePart' =>
          /\ response'.status = 400
          /\ response'.body = "No file provided"
          /\ UNCHANGED <<files, designs, glb_files>>]_vars

\* a POST to upload-3d-object with a model_type and no file part, sent when
\* the database holds designs and files, has been answered 400
C13_Witness ==
    /\ pc = "object_uploaded"
    /\ upload.file = <<>>
    /\ upload.model_type = "custom_hood"
    /\ response.status = 400
    /\ designs # <<>>
    /\ files # <<>>

-----------------------------------------------------------------------------
(* C14                                                                     *)

\* ensure_model_type_designs has been called and has returned
C14_Returned == pc = "ensured" /\ response.raised = "none"

\* the entries of the returned list for the model type
C14_Entries(model_type) ==
    {i \in 1..Len(response.created_or_updated) :
        response.created_or_updated[i].model_type = model_type}

\* C14: after ensure_model_type_designs returns, get_design_by_model_type
\* returns an active design with the mapped title for every key of
\* MODEL_TYPE_MAPPING, and the returned list has exactly one entry for each
\* key and no other entry, whether the designs were absent, inactive or
\* present before the call.
C14_EveryTypeHasDesign ==
    C14_Returned =>
        /\ \A k \in 1..Len(ModelTypeKeys) :
              /\ get_design_by_model_type(designs, ModelTypeKeys[k]) # NoDesign
              /\ LET d == designs[row_of(designs,
                                         get_design_by_model_type(designs, ModelTypeKeys[k]))]
                 IN  d.is_active /\ d.title = MODEL_TYPE_MAPPING(ModelTypeKeys[k])
              /\ Cardinality(C14_Entries(ModelTypeKeys[k])) = 1
        /\ Len(response.created_or_updated) = Len(ModelTypeKeys)

\* one call that found a design inactive, another present and the others
\* absent
C14_Witness ==
    /\ C14_Returned
    /\ \E i, j, k \in 1..Len(response.created_or_updated) :
          /\ response.created_or_updated[i].action = "reactivated"
          /\ response.created_or_updated[j].action = "exists"
          /\ response.created_or_updated[k].action = "created"

-----------------------------------------------------------------------------
(* C15                                                                     *)

\* the DesignGLBFile record with id k, and the creator of its design
C15_Record(gs, k) == gs[CHOOSE i \in 1..Len(gs) : gs[i].id = k]
C15_Creator(ds, gs, k) == ds[row_of(ds, C15_Record(gs, k).design)].created_by

\* the caller may delete the file with id k: authenticated, and staff or the
\* creator of the file's design
C15_Allowed(ds, gs, user, k) ==
    /\ user # NoUser
    /\ user = "admin" \/ C15_Creator(ds, gs, k) = user

\* C15: delete_glb_file for the id k of a DesignGLBFile record answers 401 to
\* a caller that is not authenticated and 403 to one that is neither staff
\* nor the creator of the file's design, and changes nothing for them; for
\* the other callers it removes the record k and its stored file and leaves
\* every other record and every other stored file as they were.  A call
\* changes state in no other case.
C15_DeleteFrame ==
    [][pc' = "deleted" =>
          LET k == upload'.id
              user == upload'.user
              known == \E i \in 1..Len(glb_files) : glb_files[i].id = k
          IN  /\ (known /\ user = NoUser) =>
                     response'.status = 401 /\ UNCHANGED <<files, designs, glb_files>>
              /\ (known /\ user # NoUser /\ ~C15_Allowed(designs, glb_files, user, k)) =>
                     response'.status = 403 /\ UNCHANGED <<files, designs, glb_files>>
              /\ (known /\ C15_Allowed(designs, glb_files, user, k)) =>
                     /\ response'.status = 200
                     /\ glb_files' = SelectSeq(glb_files, LAMBDA g : g.id # k)
                     /\ files' = SelectSeq(files,
                                    LAMBDA f : f # MEDIA_ROOT \o C15_Record(glb_files, k).file)
                     /\ Len(glb_files') = Len(glb_files) - 1
                     /\ Len(files') = Len(files) - 1
                     /\ designs' = designs
              /\ ~known => UNCHANGED <<files, designs, glb_files>>]_vars

\* the creator of a design, who is not staff, has deleted one of the two
\* files on record; the other file and its record are still there
C15_Witness ==
    /\ pc = "deleted"
    /\ upload.user = "alice"
    /\ response.status = 200
    /\ Len(glb_files) = 1
    /\ Len(files) = 1
    /\ files[1] = MEDIA_ROOT \o glb_files[1].file

-----------------------------------------------------------------------------
(* C16                                                                     *)

\* the exact base-pattern glob of the request, and the directories the
\* pattern-relaxation pass searches
C16_BasePattern == base_pattern(ReqName) \o <<"*">> \o ReqExt
C16_Searched == unique_locations(files, search_locations(files, dirname(ReqPath)), {})

\* the pattern-relaxation pass runs for the request
C16_Relaxed ==
    /\ ~exists(files, ReqDirect)
    /\ ~exists(files, normalization_pass(files, ReqPath).file_path)
    /\ lower(ReqExt) = ext_glb

\* C16: when the pattern-relaxation pass runs and some searched directory
\* holds a file that matches basePattern*.ext, the file that is served
\* matches the exact base pattern (as the glob does, or as the glob's
\* case-insensitive retries do); a file that matches only a shortened
\* pattern is not served, whatever directory it lies in.
C16_ExactBeforeShortened ==
    (/\ Answered
     /\ C16_Relaxed
     /\ response.status = 200
     /\ \E i \in 1..Len(C16_Searched) : glob(files, C16_Searched[i], C16_BasePattern) # <<>>)
    => \/ fnmatchcase(response.file_path[Len(response.file_path)], C16_BasePattern)
       \/ response.via = "base_pattern"

-----------------------------------------------------------------------------
(* C17                                                                     *)

\* the place of a directory in the order of the search: the request's own
\* directory, then models/ and models/original/, then the media root, then
\* the other directories below models/
C17_Rank(dir) ==
    IF dir = ReqDir THEN 0
    ELSE IF dir \in {MEDIA_ROOT \o <<n_models>>, MEDIA_ROOT \o <<n_models, n_original>>} THEN 1
    ELSE IF dir = MEDIA_ROOT THEN 2
    ELSE 3

\* the directories that are searched by the order above and hold a file
\* that matches the base pattern
C17_Holding ==
    {d \in {ReqDir, MEDIA_ROOT} \cup Range(walk(files, MEDIA_ROOT \o <<n_models>>)) :
        glob(files, d, C16_BasePattern) # <<>>}

\* C17: when the pattern-relaxation pass runs, the file is served from a
\* directory that holds a match and that no other directory holding a match
\* precedes in the order: own directory, models/ and models/original/, media
\* root, subdirectories of models/.
C17_SearchOrder ==
    (Answered /\ C16_Relaxed /\ C17_Holding # {}) =>
        /\ response.status = 200
        /\ C7_Dir \in C17_Holding
        /\ \A d \in C17_Holding : C17_Rank(C7_Dir) <= C17_Rank(d)

-----------------------------------------------------------------------------
(* C18                                                                     *)

\* the request name with underscores for spaces
C18_Underscored == replace(ReqName, " ", "_")

\* the four candidates in the order of the claim
C18_Candidates ==
    <<join_name(ReqDir, C18_Underscored \o ReqExt),
      MEDIA_ROOT \o <<n_models, n_original, C18_Underscored \o ReqExt>>,
      join_name(ReqDir, lower(C18_Underscored) \o ReqExt),
      MEDIA_ROOT \o <<n_models, n_original, lower(C18_Underscored) \o ReqExt>>>>

\* the places of the candidates that exist
C18_Existing == {i \in 1..4 : exists(files, C18_Candidates[i])}

\* C18: when the exact path is missing and the base name holds a space, the
\* candidates are probed in the order same directory with underscores,
\* models/original/ with underscores, same directory lower-cased,
\* models/original/ lower-cased; the first that exists is served, whatever
\* later candidates exist and whatever the pattern relaxation would find.
C18_FirstCandidateServed ==
    (/\ Answered
     /\ ~exists(files, ReqDirect)
     /\ contains(ReqName, <<" ">>)
     /\ C18_Existing # {})
    => /\ response.status = 200
       /\ response.file_path =
              C18_Candidates[CHOOSE i \in C18_Existing : \A j \in C18_Existing : i <= j]

\* the underscored name exists in models/original/ and the lower-cased name
\* in the request's own directory: the file of models/original/ is served
C18_Witness ==
    /\ Answered
    /\ ~exists(files, ReqDirect)
    /\ C18_Existing = {2, 3}
    /\ response.status = 200
    /\ response.file_path = C18_Candidates[2]

-----------------------------------------------------------------------------
(* C19                                                                     *)

\* the tokens of the requested base name that occur in the name of the file
\* that is served
C19_SharedTokens ==
    {k \in 1..Len(split(replace(ReqName, " ", "_"), "_")) :
        contains(response.file_path[Len(response.file_path)],
                 split(replace(ReqName, " ", "_"), "_")[k])}

\* C19: a file that the pattern relaxation finds by a glob on fewer tokens
\* than the base pattern, down to the first token alone, is served only if
\* at least two of the request's underscore-delimited tokens occur in its
\* name; a candidate that shares only the first token is not served.
C19_TwoTokensShared ==
    (/\ Answered
     /\ C16_Relaxed
     /\ response.status = 200
     /\ response.via \in {"shorter_pattern", "first_part"})
    => Cardinality(C19_SharedTokens) >= 2

-----------------------------------------------------------------------------
(* C20                                                                     *)

-----------------------------------------------------------------------------
(* C21                                                                     *)

\* C21: whenever the view has opened a file, for any request method, the
\* response it returns is the file response that owns the handle: status
\* 200 with the file as body and no exception; the file opened is the one
\* a candidate resolved to.
C21_HandleOwned ==
    (pc = "done" /\ response.opened)
    => /\ response.status = 200
       /\ response.body = "file"
       /\ response.raised = "none"
       /\ response.file_path = resolve(files, ReqPath).file_path

-----------------------------------------------------------------------------
(* C22                                                                     *)

\* C22: a step of a media request changes no file and no record, and the
\* response a request ends with is the one the view gives for the request
\* on the filesystem alone, whatever other requests ran before it or run
\* between its steps.
C22_ReadOnlyAndStateless ==
    [][/\ files' = files
       /\ designs' = designs
       /\ glb_files' = glb_files
       /\ \A c \in Clients :
             (pc[c] # "done" /\ pc'[c] = "done")
             => response'[c] = serve_media_file(files, DEBUG, request[c])]_vars

\* two requests in flight together were answered with different files
C22_Witness ==
    /\ pc[1] = "done"
    /\ pc[2] = "done"
    /\ response[1].status = 200
    /\ response[2].status = 200
    /\ response[1].file_path # response[2].file_path

-----------------------------------------------------------------------------
(* C23                                                                     *)

\* an existence check of the call of client c has chosen a file
C23_Chosen(c) ==
    /\ pc[c] \in {"relax", "final", "open"}
    /\ response[c].via \in {"exact", "underscores", "underscores_original",
                            "lowercase", "lowercase_original"}

-----------------------------------------------------------------------------
(* C24                                                                     *)

\* the primary model files of the design with this id
C24_Primaries(id) ==
    {i \in 1..Len(glb_files) :
        /\ glb_files[i].design = id
        /\ glb_files[i].is_primary
        /\ glb_files[i].file_type = "model"}

\* C24: whatever uploads have run or are running, every design has at most
\* one file with is_primary true and file_type 'model', and a design with
\* model files has one.
C24_OnePrimary ==
    \A k \in 1..Len(designs) :
        /\ Cardinality(C24_Primaries(designs[k].id)) <= 1
        /\ (\E i \in 1..Len(glb_files) :
               glb_files[i].design = designs[k].id /\ glb_files[i].file_type = "model")
           => C24_Primaries(designs[k].id) # {}

-----------------------------------------------------------------------------
(* C25                                                                     *)

\* the identifier of the login: the username, or the email keyword
C25_Identifier == IF request.username = Absent THEN request.email ELSE request.username

\* the users the identifier names by username and by email
C25_ByName == {i \in 1..Len(request.users) : request.users[i].username = C25_Identifier}
C25_ByEmail == {i \in 1..Len(request.users) : request.users[i].email = C25_Identifier}

\* the user the password is to be checked against: the one whose username
\* matches, else the one whose email matches
C25_Candidate ==
    request.users[CHOOSE i \in (IF C25_ByName # {} THEN C25_ByName ELSE C25_ByEmail) : TRUE]

\* C25: for a username or an email that names one user, or one user by
\* username and another by email, the backend returns the user whose
\* username matches (else the one whose email matches) when the password is
\* theirs and they are active, and None otherwise; None when nobody matches.
C25_UsernamePreferred ==
    (/\ pc = "authenticated"
     /\ C25_Identifier # Absent
     /\ request.password # Absent
     /\ Cardinality(C25_ByName) <= 1
     /\ (C25_ByName = {} => Cardinality(C25_ByEmail) <= 1))
    => response = IF C25_ByName \cup C25_ByEmail = {} THEN Absent
                  ELSE IF C25_Candidate.password = request.password
                          /\ C25_Candidate.is_active
                  THEN C25_Candidate.username
                  ELSE Absent

-----------------------------------------------------------------------------
(* C26                                                                     *)

\* C26: the file a response streams lies below the media root, whatever the
\* request path: response.file is the normalised path of the file opened.
C26_InsideMediaRoot ==
    (pc = "done" /\ response.opened /\ response.status = 200)
    => IsProperPrefix(MEDIA_ROOT, response.file)

-----------------------------------------------------------------------------
(* C27                                                                     *)

\* C27: the file of a successful response has the extension of the request
\* up to letter case, so the Content-Type is the one the request's
\* extension gets.
C27_SameExtension ==
    (Answered /\ response.status = 200)
    => /\ lower(splitext(basename([abs |-> TRUE, segs |-> response.file_path]))[2])
            = lower(ReqExt)
       /\ response.content_type = content_type_of(ReqDirect)

\* a request was answered with a file found by the pattern relaxation
C27_Witness ==
    /\ Answered
    /\ response.status = 200
    /\ response.via \notin {"exact", "none", "underscores", "underscores_original",
                            "lowercase", "lowercase_original"}

-----------------------------------------------------------------------------
(* C28                                                                     *)

\* the titles of the model types
C28_Titles == {MODEL_TYPE_MAPPING(ModelTypeKeys[k]) : k \in 1..Len(ModelTypeKeys)}

\* C28: no two designs, active or not, carry the title of one model type,
\* and a call of ensure_model_type_designs raises nothing.
C28_OneDesignPerTitle ==
    /\ \A i, j \in 1..Len(designs) :
          (designs[i].title \in C28_Titles /\ designs[i].title = designs[j].title)
          => i = j
    /\ (pc = "ensured" => response.raised = "none")

-----------------------------------------------------------------------------
(* C29                                                                     *)

\* the file a field of a design names is in storage (every name was stored
\* by an upload, so a name without file is the name of a deleted file)
C29_Stored(name) == name = <<>> \/ IsFileAt(files, MEDIA_ROOT \o name)

\* C29: whatever uploads and deletions have run, model_file and
\* original_file of every design name no file, or a file in storage.
C29_NoDanglingFile ==
    \A k \in 1..Len(designs) :
        C29_Stored(designs[k].model_file) /\ C29_Stored(designs[k].original_file)

-----------------------------------------------------------------------------
(* C30                                                                     *)

\* C30: a delete_model_by_type request answered with an error (400, 401 or
\* 403) leaves the design table as it was.
C30_ErrorLeavesDesigns ==
    [][(pc' = "model_deleted" /\ response'.status \in {400, 401, 403})
       => designs' = designs]_vars

=============================================================================
